---- MODULE Spec2Model ----
(***************************************************************************)
(* A model of the ElevenLabs node library (src/elevenlabs/*.py): the node  *)
(* handlers that build a vendor request, normalise the response, publish   *)
(* an audio artifact and translate vendor errors.                          *)
(*                                                                         *)
(* Text is modelled as a run-length encoded sequence of character runs: a  *)
(* run [c |-> class, n |-> count] is n characters of one class.  Classes   *)
(* are either character classes (CharClasses) or named tokens, whose full  *)
(* length is TokLen.  Bytes are integers 0..255, base64 text is a sequence *)
(* of sextets 0..63 with PadSym for '=' and BadSym for a character outside *)
(* the alphabet.                                                           *)
(***************************************************************************)
EXTENDS Integers, Sequences, FiniteSets, TLC

VARIABLES
    node,               \* class of the node instance
    resolved_api_key,   \* instance attribute _resolved_api_key ("unset" before process())
    pc,                 \* "idle", "scheduled" (process() yielded _run), "validated"
    outputs,            \* parameter_output_values of the instance
    exec,               \* record of the last execution of the instance
    callbacks,          \* deferred _run callbacks yielded and not yet run
    selection,          \* voice parameters, preview and error message of a speech node
    tr                  \* one application of an error translator

vars == <<node, resolved_api_key, pc, outputs, exec, callbacks, selection, tr>>

-----------------------------------------------------------------------------
(* Bounds of the model *)

MaxBytes == 2

-----------------------------------------------------------------------------
(* Arithmetic helpers *)

Min(a, b) == IF a < b THEN a ELSE b

Max(a, b) == IF a > b THEN a ELSE b

\* Python int(x) of a rational num/den (den > 0): truncation toward zero.
TruncDiv(num, den) == IF num >= 0 THEN num \div den ELSE -((-num) \div den)

-----------------------------------------------------------------------------
(* Text *)

Run(c, n) == [c |-> c, n |-> n]

\* "a": ASCII non-blank; "sp": ASCII white space; "u0": a non-ASCII
\* character with no ASCII decomposition (dropped by encode("ascii",
\* "ignore")); "lig": a compatibility character whose NFKD form is two ASCII
\* characters; "acc": an accented letter whose NFKD form is an ASCII letter
\* and a combining mark.
CharClasses == {"a", "sp", "u0", "lig", "acc"}

\* Python None where a str is expected.
NoneStr == <<Run("None", 0)>>

IsNone(s) == s = NoneStr

\* Python truthiness of an Optional[str].
Truthy(s) == ~IsNone(s) /\ s # <<>>

RECURSIVE StrLen(_)
StrLen(s) == IF s = <<>> THEN 0 ELSE s[1].n + StrLen(Tail(s))

\* s + t, merging runs of one character class that meet.
Cat(s, t) ==
    IF s = <<>> THEN t
    ELSE IF t = <<>> THEN s
    ELSE IF s[Len(s)].c = t[1].c /\ t[1].c \in CharClasses
         THEN SubSeq(s, 1, Len(s) - 1) \o <<Run(t[1].c, s[Len(s)].n + t[1].n)>> \o Tail(t)
         ELSE s \o t

\* s[:k]
RECURSIVE Take(_, _)
Take(s, k) ==
    IF s = <<>> \/ k <= 0 THEN <<>>
    ELSE IF s[1].n >= k THEN <<Run(s[1].c, k)>>
    ELSE <<s[1]>> \o Take(Tail(s), k - s[1].n)

\* s.strip()
RECURSIVE LStrip(_)
LStrip(s) == IF s # <<>> /\ s[1].c = "sp" THEN LStrip(Tail(s)) ELSE s

RECURSIVE RStrip(_)
RStrip(s) ==
    IF s # <<>> /\ s[Len(s)].c = "sp" THEN RStrip(SubSeq(s, 1, Len(s) - 1)) ELSE s

Strip(s) == RStrip(LStrip(s))

\* s.startswith(t), for t a prefix made of whole runs
StartsWith(s, t) == Len(s) >= Len(t) /\ Take(s, StrLen(t)) = t

\* Full length of the named tokens that the code searches for.
TokLen(c) ==
    CASE c = "music-terms" -> 11
      [] c = "Music-Terms" -> 11
      [] c = "limited_access" -> 14
      [] c = "LIMITED_ACCESS" -> 14
      [] c = "detail" -> 6
      [] c = "error" -> 5
      [] c = "status" -> 6
      [] c = "message" -> 7
      [] OTHER -> 0

\* s.lower(): the upper-case spellings of the tokens map to the lower-case ones.
LowerClass(c) ==
    CASE c = "Music-Terms" -> "music-terms"
      [] c = "LIMITED_ACCESS" -> "limited_access"
      [] OTHER -> c

\* The text with its case kept.
LowerKeepsCase(s) == s

Lower(s) == [i \in 1..Len(s) |-> Run(LowerClass(s[i].c), s[i].n)]

\* tok in s, for a named token: some run is the whole token.
Contains(s, tok) == \E i \in 1..Len(s) : s[i].c = tok /\ s[i].n = TokLen(tok)

\* A literal piece of an f-string; n is its length in characters.
Lit(c, n) == <<Run(c, n)>>

-----------------------------------------------------------------------------
(* Bytes and base64 *)

ByteVals == {77, 255}

\* Every buffer of up to MaxBytes bytes, and one that fills a base64 quantum.
Buffers == UNION {[1..n -> ByteVals] : n \in 0..MaxBytes} \cup {<<77, 255, 18>>}

PadSym == 64

BadSym == 65

\* base64.b64encode(b).decode("ascii")
RECURSIVE B64Encode(_)
B64Encode(b) ==
    IF Len(b) = 0 THEN <<>>
    ELSE IF Len(b) = 1 THEN
        <<b[1] \div 4, (b[1] % 4) * 16, PadSym, PadSym>>
    ELSE IF Len(b) = 2 THEN
        <<b[1] \div 4, (b[1] % 4) * 16 + b[2] \div 16, (b[2] % 16) * 4, PadSym>>
    ELSE
        <<b[1] \div 4, (b[1] % 4) * 16 + b[2] \div 16,
          (b[2] % 16) * 4 + b[3] \div 64, b[3] % 64>>
        \o B64Encode(SubSeq(b, 4, Len(b)))

\* binascii.a2b_base64 in its default (non-strict) mode, which
\* base64.b64decode calls: characters outside the alphabet are skipped, a
\* complete pad sequence ends the input, and a dangling quantum is an error.
RECURSIVE B64Scan(_, _, _, _, _)
B64Scan(s, quad, left, pads, out) ==
    IF s = <<>> THEN [ok |-> quad = 0, bytes |-> out]
    ELSE LET ch == s[1] IN
        IF ch = PadSym THEN
            IF quad >= 2 /\ quad + pads + 1 >= 4
            THEN [ok |-> TRUE, bytes |-> out]
            ELSE B64Scan(Tail(s), quad, left, pads + 1, out)
        ELSE IF ch >= 64 THEN B64Scan(Tail(s), quad, left, pads, out)
        ELSE CASE quad = 0 -> B64Scan(Tail(s), 1, ch, 0, out)
               [] quad = 1 -> B64Scan(Tail(s), 2, ch % 16, 0,
                                      Append(out, left * 4 + ch \div 16))
               [] quad = 2 -> B64Scan(Tail(s), 3, ch % 4, 0,
                                      Append(out, left * 16 + ch \div 4))
               [] OTHER    -> B64Scan(Tail(s), 0, 0, 0,
                                      Append(out, left * 64 + ch))

\* A decoder that hands the text back as the bytes.
B64DecodeAsText(s) == [ok |-> TRUE, bytes |-> s]

\* base64.b64decode(s): [ok |-> FALSE] stands for binascii.Error.
B64Decode(s) == B64Scan(s, 0, 0, 0, <<>>)

-----------------------------------------------------------------------------
(* JSON values of a vendor error body *)

JNull == [t |-> "null"]

JNum(n) == [t |-> "num", num |-> n]

JStr(s) == [t |-> "str", str |-> s]

JList(l) == [t |-> "list", items |-> l]

JObj(f) == [t |-> "obj", fields |-> f]

\* An absent key of an object (not a JSON value).
JAbsent == [t |-> "absent"]

\* Python truthiness of a decoded JSON value.
JTruthy(v) ==
    CASE v.t = "null" -> FALSE
      [] v.t = "num"  -> v.num # 0
      [] v.t = "str"  -> v.str # <<>>
      [] v.t = "list" -> v.items # <<>>
      [] v.t = "obj"  -> DOMAIN v.fields # {}
      [] OTHER        -> FALSE

\* str(v) as an f-string interpolates it.
Fmt(v) ==
    CASE v.t = "null" -> Lit("None", 4)
      [] v.t = "num"  -> Lit(ToString(v.num), 1)
      [] v.t = "str"  -> v.str
      [] v.t = "list" -> Lit("[..]", 4)
      [] v.t = "obj"  -> Lit("{..}", 4)
      [] OTHER        -> <<>>

\* d.get(k, default)
JGet(f, k, default) == IF k \in DOMAIN f THEN f[k] ELSE default

\* k in v, for v a dict (key), a list (element) or a str (substring).
JContainer(v) == v.t \in {"obj", "list", "str"}

JIn(k, v) ==
    CASE v.t = "obj"  -> k \in DOMAIN v.fields
      [] v.t = "list" -> \E i \in 1..Len(v.items) :
                             v.items[i].t = "str" /\ v.items[i].str = Lit(k, TokLen(k))
      [] v.t = "str"  -> Contains(v.str, k)
      [] OTHER        -> FALSE

\* The text of a response and what json.loads makes of it.
Body(valid, json, text) == [valid |-> valid, json |-> json, text |-> text]

-----------------------------------------------------------------------------
(* Error translators: _parse_error_response of four node classes *)

Returned(s) == [raised |-> "None", text |-> s]

Raised(e) == [raised |-> e, text |-> <<>>]

ApiError(status_code, text) ==
    Cat(Lit("API Error (", 11),
        Cat(Lit(ToString(status_code), 3), Cat(Lit("): ", 3), text)))

StatusMessage(status, message) == Cat(Fmt(status), Cat(Lit(": ", 2), Fmt(message)))

ErrorMessage(message) == Cat(Lit("Error: ", 7), Fmt(message))

UnableToParse(status_code) == ApiError(status_code, Lit("Unable to parse error response", 30))

\* "\n\nTo use Eleven Music, you need to accept the additional terms at
\* https://elevenlabs.io/music-terms. Please visit the link ..."
MusicTermsHint ==
    Cat(Lit("To use Eleven Music, accept the terms at ", 70),
        Cat(Lit("https://elevenlabs.io/music-terms", 33), Lit(". Please visit the link", 59)))

HasTermsMarker(s) ==
    Contains(Lower(s), "music-terms") \/ Contains(Lower(s), "limited_access")

LimitedAccess == JStr(Lit("limited_access", 14))

\* The fall-through of the try block once no field matched.
MusicRawFallback(body, status_code) ==
    IF HasTermsMarker(body.text)
    THEN Returned(Cat(ApiError(status_code, Take(body.text, 200)), MusicTermsHint))
    ELSE Returned(ApiError(status_code, Take(body.text, 200)))

\* except (JSONDecodeError, KeyError, TypeError)
MusicExcept(body, status_code) ==
    IF HasTermsMarker(body.text)
    THEN Returned(Cat(ApiError(status_code, Take(body.text, 200)), MusicTermsHint))
    ELSE Returned(UnableToParse(status_code))

\* if "error" in error_data: ...
MusicErrorField(body, status_code) ==
    LET d == body.json IN
    IF JIn("error", d) THEN
        IF d.t # "obj" THEN MusicExcept(body, status_code)
        ELSE LET error_msg == d.fields["error"] IN
             IF error_msg.t = "str" /\ HasTermsMarker(error_msg.str)
             THEN Returned(Cat(ErrorMessage(error_msg), MusicTermsHint))
             ELSE Returned(ErrorMessage(error_msg))
    ELSE MusicRawFallback(body, status_code)

MusicDetailDict(body, status_code, detail) ==
    LET status  == JGet(detail.fields, "status", JStr(<<>>))
        message == JGet(detail.fields, "message", JStr(<<>>))
    IN  IF JTruthy(status) /\ JTruthy(message) THEN
            IF status = LimitedAccess THEN
                \* message.lower(): only a str has it
                IF message.t # "str" THEN Raised("AttributeError")
                ELSE IF Contains(Lower(message.str), "music-terms")
                     THEN Returned(Cat(StatusMessage(status, message), MusicTermsHint))
                     ELSE Returned(StatusMessage(status, message))
            ELSE Returned(StatusMessage(status, message))
        ELSE IF JTruthy(message) THEN Returned(ErrorMessage(message))
        ELSE MusicErrorField(body, status_code)

GenerateMusic_parse_error_response(body, status_code) ==
    IF ~body.valid THEN MusicExcept(body, status_code)
    ELSE LET d == body.json IN
        IF ~JContainer(d) THEN MusicExcept(body, status_code)
        ELSE IF JIn("detail", d) THEN
            IF d.t # "obj" THEN MusicExcept(body, status_code)
            ELSE LET detail == d.fields["detail"] IN
                 IF detail.t = "obj" THEN MusicDetailDict(body, status_code, detail)
                 ELSE IF detail.t = "str" THEN
                     IF HasTermsMarker(detail.str)
                     THEN Returned(Cat(ErrorMessage(detail), MusicTermsHint))
                     ELSE Returned(ErrorMessage(detail))
                 ELSE MusicErrorField(body, status_code)
        ELSE MusicErrorField(body, status_code)

\* Text-to-speech and clone-voice share one body; "except Exception" covers
\* every failure of the try block.
SpeechErrorField(body, status_code) ==
    LET d == body.json IN
    IF JIn("error", d) THEN
        IF d.t # "obj" THEN Returned(UnableToParse(status_code))
        ELSE LET error_msg == d.fields["error"] IN
             IF error_msg.t = "str" THEN Returned(ErrorMessage(error_msg))
             ELSE Returned(ApiError(status_code, Take(body.text, 200)))
    ELSE Returned(ApiError(status_code, Take(body.text, 200)))

SpeechDetail(body, status_code, detail) ==
    IF detail.t = "obj" THEN
        LET status  == JGet(detail.fields, "status", JStr(<<>>))
            message == JGet(detail.fields, "message", JStr(<<>>))
        IN  IF JTruthy(status) /\ JTruthy(message)
            THEN Returned(StatusMessage(status, message))
            ELSE IF JTruthy(message) THEN Returned(ErrorMessage(message))
            ELSE SpeechErrorField(body, status_code)
    ELSE IF detail.t = "str" THEN Returned(ErrorMessage(detail))
    ELSE SpeechErrorField(body, status_code)

TextToSpeech_parse_error_response(body, status_code) ==
    IF ~body.valid THEN Returned(UnableToParse(status_code))
    ELSE LET d == body.json IN
        IF ~JContainer(d) THEN Returned(UnableToParse(status_code))
        ELSE IF JIn("detail", d) THEN
            IF d.t # "obj" THEN Returned(UnableToParse(status_code))
            ELSE SpeechDetail(body, status_code, d.fields["detail"])
        ELSE SpeechErrorField(body, status_code)

CloneVoice_parse_error_response(body, status_code) ==
    IF ~body.valid THEN Returned(UnableToParse(status_code))
    ELSE LET d == body.json IN
        IF ~JContainer(d) THEN Returned(UnableToParse(status_code))
        ELSE IF JIn("detail", d) THEN
            IF d.t # "obj" THEN Returned(UnableToParse(status_code))
            ELSE SpeechDetail(body, status_code, d.fields["detail"])
        ELSE SpeechErrorField(body, status_code)

\* The voice changer reads only a dict 'detail' and formats any 'error'.
ChangerErrorField(body, status_code) ==
    LET d == body.json IN
    IF JIn("error", d) THEN
        IF d.t # "obj" THEN Returned(UnableToParse(status_code))
        ELSE Returned(ErrorMessage(d.fields["error"]))
    ELSE Returned(ApiError(status_code, Take(body.text, 200)))

VoiceChanger_parse_error_response(body, status_code) ==
    IF ~body.valid THEN Returned(UnableToParse(status_code))
    ELSE LET d == body.json IN
        IF ~JContainer(d) THEN Returned(UnableToParse(status_code))
        ELSE IF JIn("detail", d) THEN
            IF d.t # "obj" THEN Returned(UnableToParse(status_code))
            ELSE LET detail == d.fields["detail"] IN
                 IF detail.t = "obj" THEN
                     LET status  == JGet(detail.fields, "status", JStr(<<>>))
                         message == JGet(detail.fields, "message", JStr(<<>>))
                     IN  IF JTruthy(status) /\ JTruthy(message)
                         THEN Returned(StatusMessage(status, message))
                         ELSE IF JTruthy(message) THEN Returned(ErrorMessage(message))
                         ELSE ChangerErrorField(body, status_code)
                 ELSE ChangerErrorField(body, status_code)
        ELSE ChangerErrorField(body, status_code)

Translators == {"music", "text_to_speech", "voice_changer", "clone_voice"}

ParseErrorResponse(n, body, status_code) ==
    CASE n = "music"          -> GenerateMusic_parse_error_response(body, status_code)
      [] n = "text_to_speech" -> TextToSpeech_parse_error_response(body, status_code)
      [] n = "voice_changer"  -> VoiceChanger_parse_error_response(body, status_code)
      [] OTHER                -> CloneVoice_parse_error_response(body, status_code)

-----------------------------------------------------------------------------
(* Vendor error bodies *)

MaxRawText == 250

\* json.dumps(v), the text a JSON body arrives as.
KeyOrder == <<"detail", "error", "status", "message">>

RECURSIVE Ser(_)
RECURSIVE SerItems(_)
RECURSIVE SerFields(_, _)
Ser(v) ==
    CASE v.t = "null" -> Lit("null", 4)
      [] v.t = "num"  -> Lit(ToString(v.num), 1)
      [] v.t = "str"  -> Cat(Lit("q", 1), Cat(v.str, Lit("q", 1)))
      [] v.t = "list" -> Cat(Lit("[", 1), Cat(SerItems(v.items), Lit("]", 1)))
      [] v.t = "obj"  -> Cat(Lit("{", 1), Cat(SerFields(v.fields, KeyOrder), Lit("}", 1)))
      [] OTHER        -> <<>>

SerItems(l) == IF l = <<>> THEN <<>> ELSE Cat(Ser(l[1]), Cat(Lit(",", 1), SerItems(Tail(l))))

SerFields(f, keys) ==
    IF keys = <<>> THEN <<>>
    ELSE IF keys[1] \in DOMAIN f
         THEN Cat(Lit("q", 1), Cat(Lit(keys[1], TokLen(keys[1])), Cat(Lit("q:", 2),
                  Cat(Ser(f[keys[1]]), Cat(Lit(",", 1), SerFields(f, Tail(keys)))))))
         ELSE SerFields(f, Tail(keys))

JsonBody(v) == Body(TRUE, v, Ser(v))

TextBody(s) == Body(FALSE, JNull, s)

\* An object holding the keys of ks whose value is present.
Obj(ks, val(_)) == JObj([k \in {x \in ks : val(x).t # "absent"} |-> val(k)])

StatusValues ==
    {JAbsent, LimitedAccess, JStr(Lit("invalid_request", 15)), JStr(<<>>), JNum(5), JNull}

MessageValues ==
    {JAbsent, JStr(Lit("Music-Terms", 11) \o <<Run("sp", 1), Run("a", 8)>>),
     JStr(<<Run("a", 4)>>), JStr(<<>>), JNum(5), JList(<<JNum(1)>>), JNull}

DetailObjects ==
    {Obj({"status", "message"},
         LAMBDA k : IF k = "status" THEN st ELSE msg) :
        st \in StatusValues, msg \in MessageValues}

DetailValues ==
    DetailObjects \cup
    {JAbsent, JStr(<<Run("a", 9)>>), JStr(Lit("LIMITED_ACCESS", 14)), JNull, JNum(5),
     JList(<<>>)}

ErrorValues ==
    {JAbsent, JStr(<<Run("a", 6)>>), JStr(Lit("music-terms", 11)), JNum(5), JNull}

ErrorObjects ==
    {Obj({"detail", "error"},
         LAMBDA k : IF k = "detail" THEN d ELSE e) :
        d \in DetailValues, e \in ErrorValues}

\* Valid JSON that is not an object.
NonObjects ==
    {JNull, JNum(5), JList(<<>>), JList(<<JStr(Lit("detail", 6))>>),
     JList(<<JStr(Lit("error", 5))>>), JStr(Lit("detail", 6)),
     JStr(<<Run("a", 3)>> \o Lit("error", 5)), JStr(<<Run("a", 3)>>)}

GarbageTexts ==
    {<<>>, <<Run("a", 5)>>, <<Run("a", MaxRawText)>>,
     <<Run("a", 3), Run("sp", 1)>> \o Lit("Music-Terms", 11)}

ErrorBodies ==
    {JsonBody(v) : v \in ErrorObjects \cup NonObjects} \cup {TextBody(s) : s \in GarbageTexts}

StatusCodes == {400, 500}

-----------------------------------------------------------------------------
(* One application of an error translator to a vendor error response *)

TrIdle == [node |-> "music", body |-> TextBody(<<>>), status_code |-> 400,
           called |-> FALSE, result |-> Returned(<<>>)]

Translate ==
    /\ ~tr.called
    /\ tr' = [tr EXCEPT !.called = TRUE,
                        !.result = ParseErrorResponse(tr.node, tr.body, tr.status_code)]
    /\ UNCHANGED <<node, resolved_api_key, pc, outputs, exec, callbacks, selection>>

InitTranslate ==
    /\ tr \in {[TrIdle EXCEPT !.node = n, !.body = b, !.status_code = c] :
                  n \in Translators, b \in ErrorBodies, c \in StatusCodes}
    /\ node = "music"
    /\ resolved_api_key = "unset"
    /\ pc = "idle"
    /\ outputs = <<>>
    /\ exec = <<>>
    /\ callbacks = <<>>
    /\ selection = <<>>

SpecTranslate == InitTranslate /\ [][Translate]_vars

-----------------------------------------------------------------------------
(* Values shared by the node handlers *)

Nodes == {"music", "sound_effects", "text_to_speech", "voice_changer",
          "voice_design", "clone_voice", "save_voice", "list_voices"}

\* What a lookup of ELEVEN_LABS_API_KEY can yield: None, "", or a key.
\* "raise" is a lookup that raised.
NoKey == "None"

ConfigValues == {"None", "", "kA", "raise"}

EnvValues == {"None", "kE"}

SecretValues == {"None", "", "kA"}

KeyTruthy(k) == k \notin {"None", "", "raise", "unset", "unread"}

\* Python None in an output slot.
NoneV == [k |-> "None"]

FileName(stem, ext) == [stem |-> stem, ext |-> ext]

StaticUrl(file) == [scheme |-> "static", file |-> file]

DataUrl(mime, payload) == [scheme |-> "data", mime |-> mime, payload |-> payload]

VendorUrl(ref) == [scheme |-> "vendor", ref |-> ref]

\* AudioUrlArtifact(value=url, name=name)
AudioUrlArtifact(url, name) == [k |-> "AudioUrlArtifact", value |-> url, name |-> name]

NoName == FileName("", "")

\* Exceptions: the Python type, the error kind of the design, the message.
NoError == [type |-> "None", kind |-> "None", msg |-> <<>>]

Error(type, kind, msg) == [type |-> type, kind |-> kind, msg |-> msg]

MissingKeyConfig ==
    Error("RuntimeError", "ConfigurationError", Lit("Missing ELEVEN_LABS_API_KEY", 27))

\* Outcomes of one HTTP exchange with the vendor.
HttpOk(content) == [k |-> "ok", content |-> content]

HttpStatusError(code, body) == [k |-> "status", code |-> code, body |-> body]

HttpTransportError == [k |-> "transport"]

\* The error bodies the node executions are run against.
RunErrorBodies ==
    {JsonBody(Obj({"detail"}, LAMBDA k : Obj({"status", "message"},
        LAMBDA f : IF f = "status" THEN LimitedAccess ELSE m))) :
            m \in {JNum(5), JStr(Lit("music-terms", 11))}}
    \cup {TextBody(<<Run("a", 5)>>)}

HttpOutcomes ==
    {HttpOk(b) : b \in Buffers}
    \cup {HttpStatusError(400, b) : b \in RunErrorBodies}
    \cup {HttpTransportError}

\* The exchanges that can follow: none matters unless the request is sent.
HttpAfter(sent) == IF sent THEN HttpOutcomes ELSE {HttpTransportError}

\* save_static_file returns (TRUE) or raises (FALSE); it is called only with bytes.
SaveAfter(http) == IF http.k = "ok" /\ http.content # <<>> THEN BOOLEAN ELSE {FALSE}

RequestFailed == Error("RuntimeError", "UnexpectedError", Lit("Request failed: ", 16))

\* raise RuntimeError(_parse_error_response(...)) inside the HTTPStatusError
\* handler: an exception of the translator itself leaves the handler as it is.
RemoteError(t) ==
    IF t.raised = "None" THEN Error("RuntimeError", "RemoteAPIError", t.text)
    ELSE Error(t.raised, "UnexpectedError", <<>>)

ExecIdle == [phase |-> "idle"]

-----------------------------------------------------------------------------
(* ElevenLabsGenerateMusic *)

PROMPT_MAX_LENGTH == 2000

MIN_MUSIC_LENGTH_SEC == 10

MAX_MUSIC_LENGTH_SEC == 300

\* Float seconds are multiples of 1/TicksPerSecond.
TicksPerSecond == 2000

Seconds(n) == <<n * TicksPerSecond>>

Fmt_mp3_44100_128 == <<Run("mp3", 3), Run("_44100_128", 10)>>

Fmt_pcm_44100 == <<Run("pcm", 3), Run("_44100", 6)>>

Fmt_opus_48000_32 == <<Run("opus", 4), Run("_48000_32", 9)>>

OutputFormats == {NoneStr, Fmt_pcm_44100, Fmt_opus_48000_32}

MusicPrompts == {NoneStr, <<Run("a", 12)>>, <<Run("a", PROMPT_MAX_LENGTH + 1)>>}

\* None, 9.9995 s, 30 s, 400 s
MusicDurations == {<<>>, <<10 * TicksPerSecond - 1>>, Seconds(30), Seconds(400)}

MusicInput(p, u, d, f, o) ==
    [prompt |-> p, use_specific_length |-> u, music_duration_seconds |-> d,
     force_instrumental |-> f, output_format |-> o]

\* With use_specific_length off the duration stays at its default of 30 s.
MusicInputs ==
    {MusicInput(p, TRUE, d, FALSE, o) :
        p \in MusicPrompts, d \in MusicDurations, o \in OutputFormats}
    \cup {MusicInput(p, FALSE, Seconds(30), f, o) :
        p \in MusicPrompts, f \in BOOLEAN, o \in {NoneStr, Fmt_pcm_44100}}

\* music_length_ms = int(duration_seconds * 1000), or None (<<>>)
MusicLengthMs(use_length, duration_seconds) ==
    IF use_length /\ duration_seconds # <<>>
    THEN <<TruncDiv(duration_seconds[1] * 1000, TicksPerSecond)>>
    ELSE <<>>

\* The JSON payload; an absent key is NoneStr, <<>> or FALSE.
MusicPayload(prompt, music_length_ms, force_instrumental) ==
    [model_id |-> "music_v1",
     prompt |-> IF Truthy(prompt) THEN prompt ELSE NoneStr,
     music_length_ms |-> music_length_ms,
     force_instrumental |-> force_instrumental]

MusicRequest(api_key, output_format, payload) ==
    [endpoint |-> "POST /v1/music", key |-> api_key, output_format |-> output_format,
     payload |-> payload]

\* MusicArtifact that names audio/mpeg for every output format.
MusicArtifactMpeg(resp_bytes, output_format, saved) ==
    IF resp_bytes = <<>> THEN NoneV
    ELSE IF saved THEN
        AudioUrlArtifact(StaticUrl(FileName("elevenlabs_music", "mp3")),
                         FileName("elevenlabs_music", "mp3"))
    ELSE AudioUrlArtifact(DataUrl("audio/mpeg", B64Encode(resp_bytes)), FileName("music", ""))

\* MusicArtifact without the data-URL fallback.
MusicArtifactNoFallback(resp_bytes, output_format, saved) ==
    IF resp_bytes = <<>> \/ ~saved THEN NoneV
    ELSE AudioUrlArtifact(StaticUrl(FileName("elevenlabs_music", "mp3")),
                          FileName("elevenlabs_music", "mp3"))

\* MusicArtifact that hands on a URL found in the response.
MusicArtifactFromResponse(resp_bytes, output_format, saved) ==
    IF resp_bytes = <<>> THEN NoneV
    ELSE AudioUrlArtifact(VendorUrl(<<Run("https://cdn/music", 17)>>), FileName("music", ""))

\* "Save to static": the artifact for the received bytes; saved tells whether
\* save_static_file returned or raised.
MusicArtifact(resp_bytes, output_format, saved) ==
    IF resp_bytes = <<>> THEN NoneV
    ELSE IF saved THEN
        LET ext == IF StartsWith(output_format, Lit("pcm", 3)) THEN "wav" ELSE "mp3"
            filename == FileName("elevenlabs_music", ext)
        IN  AudioUrlArtifact(StaticUrl(filename), filename)
    ELSE
        LET mime == IF StartsWith(output_format, Lit("pcm", 3)) THEN "audio/wav"
                    ELSE "audio/mpeg"
        IN  AudioUrlArtifact(DataUrl(mime, B64Encode(resp_bytes)), FileName("music", ""))

\* _run of the music node: the execution record and, in audio, the value
\* assigned to the output slot (<<>> when the run raised before assigning).
MusicRun(in, secret, http, saved) ==
    LET output_format == IF Truthy(in.output_format) THEN in.output_format
                         ELSE Fmt_mp3_44100_128
        prompt == IF Truthy(in.prompt) /\ StrLen(in.prompt) > PROMPT_MAX_LENGTH
                  THEN Take(in.prompt, PROMPT_MAX_LENGTH) ELSE in.prompt
        music_length_ms == MusicLengthMs(in.use_specific_length, in.music_duration_seconds)
        payload == MusicPayload(prompt, music_length_ms, in.force_instrumental)
        base == [phase |-> "done", in |-> in, key |-> NoKey, calls |-> <<>>,
                 raised |-> NoError, resp_bytes |-> <<>>, saved |-> FALSE,
                 output_format |-> output_format, audio |-> <<>>]
        sent == [base EXCEPT !.key = secret,
                             !.calls = <<MusicRequest(secret, output_format, payload)>>]
    IN  IF ~KeyTruthy(secret) THEN
            [base EXCEPT !.raised = Error("RuntimeError", "ConfigurationError",
                                          Lit("is missing ELEVEN_LABS_API_KEY", 30))]
        ELSE IF http.k = "status" THEN
            [sent EXCEPT !.raised =
                RemoteError(GenerateMusic_parse_error_response(http.body, http.code))]
        ELSE IF http.k = "transport" THEN
            [sent EXCEPT !.raised = RequestFailed]
        ELSE
            [sent EXCEPT !.resp_bytes = http.content,
                         !.saved = (http.content # <<>> /\ saved),
                         !.audio = <<MusicArtifact(http.content, output_format, saved)>>]

RunMusic ==
    /\ node = "music"
    /\ pc = "scheduled"
    /\ \E in \in MusicInputs, secret \in SecretValues :
       \E http \in HttpAfter(KeyTruthy(secret)) : \E saved \in SaveAfter(http) :
          LET r == MusicRun(in, secret, http, saved) IN
          /\ exec' = r
          /\ outputs' = IF r.audio # <<>> THEN [outputs EXCEPT !.audio = r.audio[1]]
                        ELSE outputs
    /\ pc' = "idle"
    /\ UNCHANGED <<node, resolved_api_key, callbacks, selection, tr>>

-----------------------------------------------------------------------------
(* API key resolution of the nodes that read host configuration *)

CachingNodes == {"sound_effects", "voice_design", "save_voice", "list_voices"}

\* process() that prefers the environment variable.
ProcessResolveKeyEnvFirst(config, environ) ==
    IF KeyTruthy(environ) THEN environ ELSE config

\* process(): get_config_value, then os.environ when that gave nothing.
ProcessResolveKey(config, environ) == IF KeyTruthy(config) THEN config ELSE environ

\* _run of sound effects, voice design and save voice: the key cached by
\* process(), else get_config_value, else os.environ; None is NoKey.
RunResolveKey(resolved, config, environ) ==
    IF KeyTruthy(resolved) THEN resolved
    ELSE IF KeyTruthy(config) THEN config
    ELSE IF KeyTruthy(environ) THEN environ
    ELSE NoKey

\* _run of list voices: os.environ is read only when get_config_value raised.
ListResolveKey(resolved, config, environ) ==
    IF KeyTruthy(resolved) THEN resolved
    ELSE IF config = "raise" THEN (IF KeyTruthy(environ) THEN environ ELSE NoKey)
    ELSE IF KeyTruthy(config) THEN config
    ELSE NoKey

\* What _run reads from the host: nothing when process() cached a key.
Reads(config, environ) == [config |-> config, environ |-> environ]

Unread == Reads("unread", "unread")

\* plain: the reads are not what the execution is about, the host has a key.
RunReads(resolved, plain) ==
    IF KeyTruthy(resolved) THEN {Unread}
    ELSE IF plain THEN {Reads(c, e) : c \in ConfigValues, e \in EnvValues}
    ELSE {Reads("kA", "None")}

\* More than MaxCallbacks deferred callbacks are never outstanding at once.
MaxCallbacks == 2

RemoveAt(s, i) == [j \in 1..(Len(s) - 1) |-> IF j < i THEN s[j] ELSE s[j + 1]]

\* The record of an execution, with the key its own process() resolved.
WithOwn(r, own) ==
    [f \in DOMAIN r \cup {"own"} |-> IF f = "own" THEN own ELSE r[f]]

\* An execution that overlaps no other runs every case of its node; the
\* callbacks of overlapping executions run the plain case.
CallbackCases(cases, plain) ==
    IF Len(callbacks) = 1 /\ exec.phase = "scheduled" THEN cases ELSE {plain}

\* What os.environ holds at process(): between overlapping executions it is
\* the configured key that changes, the environment variable staying unset.
ProcessEnvValues == IF pc = "idle" THEN EnvValues ELSE {"None"}

\* process() of the four nodes: every call overwrites the instance attribute
\* and yields one more _run callback.
ProcessCaching ==
    /\ node \in CachingNodes
    /\ pc = "idle" \/ (pc = "scheduled" /\ Len(callbacks) < MaxCallbacks)
    /\ \E config \in ConfigValues, environ \in ProcessEnvValues :
          /\ resolved_api_key' = ProcessResolveKey(config, environ)
          /\ exec' = [phase |-> "scheduled", config |-> config, environ |-> environ]
          /\ callbacks' = Append(callbacks, ProcessResolveKey(config, environ))
    /\ pc' = "scheduled"
    /\ UNCHANGED <<node, outputs, selection, tr>>

\* from elevenlabs import ElevenLabs failed
MissingPackage ==
    Error("ImportError", "ConfigurationError", Lit("elevenlabs package not installed", 32))

-----------------------------------------------------------------------------
(* ElevenLabsSoundEffects *)

MaxChunks == 2

NoneBytes == [some |-> FALSE, data |-> <<>>]

SomeBytes(b) == [some |-> TRUE, data |-> b]

\* Values of a response dictionary.
FAbsent == [t |-> "absent"]

FStr(x) == [t |-> "str", s |-> x]

FNum == [t |-> "num"]

FBytes(b) == [t |-> "bytes", data |-> b]

FTruthy(v) == v.t = "num" \/ (v.t = "str" /\ v.s # <<>>)

\* a or b
FOr(a, b) == IF FTruthy(a) THEN a ELSE b

Dict(b1, b2, u1, u2) == [audio_base_64 |-> b1, audio_base64 |-> b2, url |-> u1, audio_url |-> u2]

\* "data:" in the symbols of base64 text (':' is outside the alphabet).
DataPrefix == <<29, 26, 45, 26, BadSym>>

VendorLink == <<Run("https://cdn/sfx", 15)>>

\* A buffer of ten bytes.
TenBytes == <<77, 255, 18, 0, 1, 2, 250, 63, 64, 128>>

SfxDicts ==
    {Dict(FAbsent, FAbsent, FAbsent, FAbsent),
     Dict(FAbsent, FStr(B64Encode(TenBytes)), FAbsent, FAbsent),
     Dict(FStr(B64Encode(<<77>>)), FAbsent, FAbsent, FAbsent),
     Dict(FAbsent, FStr(B64Encode(<<77, 255>>)), FAbsent, FAbsent),
     Dict(FStr(<<>>), FStr(B64Encode(<<255>>)), FAbsent, FAbsent),
     Dict(FStr(<<19>>), FAbsent, FAbsent, FAbsent),
     Dict(FStr(<<19, 16>>), FStr(B64Encode(<<77>>)), FAbsent, FAbsent),
     Dict(FStr(<<PadSym, PadSym>>), FAbsent, FAbsent, FAbsent),
     Dict(FStr(DataPrefix), FAbsent, FAbsent, FAbsent),
     Dict(FNum, FAbsent, FAbsent, FAbsent),
     Dict(FAbsent, FAbsent, FStr(VendorLink), FAbsent),
     Dict(FAbsent, FAbsent, FStr(<<>>), FStr(VendorLink)),
     Dict(FStr(<<19>>), FAbsent, FNum, FAbsent)}

ByteChunk(b) == [bytes |-> TRUE, data |-> b]

OtherChunk == [bytes |-> FALSE, data |-> <<>>]

Chunks == {ByteChunk(<<77>>), ByteChunk(<<255>>), OtherChunk}

ChunkLists == UNION {[1..n -> Chunks] : n \in 0..MaxChunks}

\* What model_dump() / to_dict() of a response object does: the attribute is
\* missing, the call raises, or it returns a dictionary.
NoDump == [k |-> "none"]

DumpRaises == [k |-> "raises"]

DumpDict(d) == [k |-> "dict", d |-> d]

SfxDumps == {NoDump, DumpRaises, DumpDict(Dict(FAbsent, FAbsent, FStr(VendorLink), FAbsent))}

\* The shapes a response of the SDK can take.
RespBytes(b) == [k |-> "bytes", data |-> b]

RespDict(d) == [k |-> "dict", d |-> d]

\* raises: iterating the stream raises after the listed chunks.
RespIter(chunks, raises, dump) ==
    [k |-> "iter", chunks |-> chunks, raises |-> raises, dump |-> dump]

\* audio: the audio attribute, FAbsent, FBytes of a buffer or FStr of base64 text
RespObject(audio, dump) == [k |-> "object", audio |-> audio, dump |-> dump]

SfxResponses ==
    {RespBytes(b) : b \in Buffers}
    \cup {RespDict(d) : d \in SfxDicts}
    \cup {RespIter(c, FALSE, NoDump) : c \in ChunkLists}
    \cup {RespIter(<<ByteChunk(<<>>)>>, FALSE, NoDump), RespIter(<<ByteChunk(<<77>>)>>, TRUE, NoDump)}
    \cup {RespIter(<<OtherChunk>>, FALSE, d) : d \in SfxDumps}
    \cup {RespObject(a, NoDump) :
            a \in {FAbsent, FBytes(<<77>>), FStr(B64Encode(<<255>>)), FStr(<<19>>)}}
    \cup {RespObject(FBytes(<<77>>), d) : d \in SfxDumps}

\* _join_iterable_bytes
RECURSIVE JoinChunks(_)
JoinChunks(chunks) ==
    IF chunks = <<>> THEN <<>>
    ELSE IF chunks[1].bytes THEN chunks[1].data \o JoinChunks(Tail(chunks))
    ELSE JoinChunks(Tail(chunks))

\* The join that keeps what arrived before the stream raised.
JoinKeepingPartial(it) ==
    IF \E i \in 1..Len(it.chunks) : it.chunks[i].bytes
    THEN SomeBytes(JoinChunks(it.chunks))
    ELSE NoneBytes

_join_iterable_bytes(it) ==
    IF it.raises THEN NoneBytes
    ELSE IF \E i \in 1..Len(it.chunks) : it.chunks[i].bytes
         THEN SomeBytes(JoinChunks(it.chunks))
         ELSE NoneBytes

\* len(audio_bytes) if audio_bytes else None
LenOrNone(ob) == IF ob.some /\ ob.data # <<>> THEN <<Len(ob.data)>> ELSE <<>>

ResponseMeta(type, byte_length) == <<[type |-> type, byte_length |-> byte_length]>>

Normalized(audio_bytes, response, api) ==
    [audio_bytes |-> audio_bytes, response |-> response, api |-> api]

\* The response normaliser of _run: the byte buffer (or None),
\* metadata["response"] and metadata["api"] (<<>> when not set).
SfxNormalize(resp) ==
    IF resp.k = "bytes" THEN
        Normalized(SomeBytes(resp.data), ResponseMeta("bytes", <<Len(resp.data)>>), <<>>)
    ELSE IF resp.k = "dict" THEN
        LET audio_b64 == FOr(resp.d.audio_base_64, resp.d.audio_base64) IN
        IF audio_b64.t = "str" THEN
            LET dec == B64Decode(audio_b64.s) IN
            IF dec.ok
            THEN Normalized(SomeBytes(dec.bytes),
                            ResponseMeta("base64", <<Len(dec.bytes)>>), <<resp.d>>)
            ELSE Normalized(NoneBytes, <<>>, <<resp.d>>)
        ELSE Normalized(NoneBytes, <<>>, <<resp.d>>)
    ELSE IF resp.k = "iter" THEN
        LET joined == _join_iterable_bytes(resp) IN
        Normalized(joined, ResponseMeta("iterable", LenOrNone(joined)),
                   IF resp.dump.k = "dict" THEN <<resp.dump.d>> ELSE <<>>)
    ELSE
        LET audio_bytes ==
                IF resp.audio.t = "absent" THEN NoneBytes
                ELSE IF resp.audio.t = "str" THEN
                    (IF B64Decode(resp.audio.s).ok
                     THEN SomeBytes(B64Decode(resp.audio.s).bytes) ELSE NoneBytes)
                ELSE IF resp.audio.t = "bytes" THEN SomeBytes(resp.audio.data)
                ELSE NoneBytes
        IN  IF resp.dump.k = "raises" THEN Normalized(audio_bytes, <<>>, <<>>)
            ELSE Normalized(audio_bytes,
                            IF audio_bytes.some
                            THEN ResponseMeta("attr", <<Len(audio_bytes.data)>>) ELSE <<>>,
                            IF resp.dump.k = "dict" THEN <<resp.dump.d>> ELSE <<>>)

\* b"WAVE" in data[:32]
HasWave(data) ==
    \E i \in 1..Min(Len(data), 32) - 3 : SubSeq(data, i, i + 3) = <<87, 65, 86, 69>>

_sniff_audio_extension(data) ==
    IF Len(data) >= 4 /\ SubSeq(data, 1, 4) = <<82, 73, 70, 70>> /\ HasWave(data) THEN "wav"
    ELSE IF Len(data) >= 3 /\ SubSeq(data, 1, 3) = <<73, 68, 51>> THEN "mp3"
    ELSE IF Len(data) >= 2 /\ SubSeq(data, 1, 2) = <<255, 251>> THEN "mp3"
    ELSE IF Len(data) >= 4 /\ SubSeq(data, 1, 4) = <<79, 103, 103, 83>> THEN "ogg"
    ELSE "mp3"

FileMeta(url, filename, saved_to_static) ==
    <<[url |-> url, filename |-> filename, saved_to_static |-> saved_to_static]>>

Published(artifact, file) == [artifact |-> artifact, file |-> file]

\* The publication with metadata["file"] always recording a static save.
SfxPublishAlwaysSaved(norm, saved) ==
    IF norm.audio_bytes.some /\ norm.audio_bytes.data # <<>> THEN
        LET data_url == DataUrl("audio/mpeg", B64Encode(norm.audio_bytes.data))
            name == FileName("sound_effect", "mp3")
        IN  Published(AudioUrlArtifact(data_url, name), FileMeta(data_url, name, TRUE))
    ELSE Published(NoneV, <<>>)

\* "Save to static files when we have bytes; fallback to data URL otherwise":
\* the artifact and metadata["file"] (<<>> when not set).
SfxPublish(norm, saved) ==
    IF norm.audio_bytes.some /\ norm.audio_bytes.data # <<>> THEN
        IF saved THEN
            LET file_name == FileName("elevenlabs_sfx",
                                      _sniff_audio_extension(norm.audio_bytes.data))
                file_url == StaticUrl(file_name)
            IN  Published(AudioUrlArtifact(file_url, file_name),
                          FileMeta(file_url, file_name, TRUE))
        ELSE
            LET data_url == DataUrl("audio/mpeg", B64Encode(norm.audio_bytes.data))
                name == FileName("sound_effect", "mp3")
            IN  Published(AudioUrlArtifact(data_url, name), FileMeta(data_url, name, FALSE))
    ELSE IF norm.api # <<>> THEN
        LET api_meta == norm.api[1]
            audio_url == FOr(api_meta.url, api_meta.audio_url)
            audio_b64 == FOr(api_meta.audio_base_64, api_meta.audio_base64)
        IN  IF audio_url.t = "str" THEN
                Published(AudioUrlArtifact(VendorUrl(audio_url.s), FileName("sound_effect", "")),
                          FileMeta(VendorUrl(audio_url.s), FileName("sound_effect", ""), FALSE))
            ELSE IF audio_b64.t = "str" THEN
                LET url == IF Len(audio_b64.s) >= 5 /\ SubSeq(audio_b64.s, 1, 5) = DataPrefix
                           THEN DataUrl("vendor", audio_b64.s)
                           ELSE DataUrl("audio/mpeg", audio_b64.s)
                    name == FileName("sound_effect", "mp3")
                IN  Published(AudioUrlArtifact(url, name), FileMeta(url, name, FALSE))
            ELSE Published(NoneV, <<>>)
    ELSE Published(NoneV, <<>>)

SfxTexts == {NoneStr, <<>>, <<Run("sp", 2)>>, <<Run("a", 8)>>}

\* float("nan"), kept as the quotient 0/0: it is a float like any other, and
\* every comparison with it is False.
NaN == <<0, 0>>

\* None, 0.05 s, 5 s, 40 s, nan
SfxDurations == {<<>>, <<TicksPerSecond \div 20>>, Seconds(5), Seconds(40), NaN}

SfxInput(t, u, d, l) ==
    [text |-> t, use_specific_duration |-> u, duration_seconds |-> d, looping |-> l]

SfxDefaultInput == SfxInput(<<Run("a", 8)>>, FALSE, <<>>, FALSE)

SfxInputs ==
    {SfxInput(SfxDefaultInput.text, u, d, l) :
        u \in BOOLEAN, d \in SfxDurations, l \in BOOLEAN}
    \cup {SfxInput(t, TRUE, Seconds(5), FALSE) : t \in SfxTexts}

\* How the attempts of client.text_to_sound_effects.convert end, in order.
SdkOutcomes ==
    {<<"ok", "ok", "ok">>, <<"error", "ok", "ok">>, <<"TypeError", "ok", "ok">>,
     <<"TypeError", "error", "ok">>, <<"TypeError", "TypeError", "ok">>,
     <<"TypeError", "TypeError", "error">>, <<"TypeError", "TypeError", "TypeError">>}

\* The attempts with every failure answered by the next form of the call.
SfxTriedAnyFailure(sdk) ==
    IF sdk[1] = "ok" THEN <<sdk[1]>>
    ELSE IF sdk[2] = "ok" THEN <<sdk[1], sdk[2]>>
    ELSE sdk

\* "Try with best-known signature, then fallbacks": the attempts made, with
\* their outcomes; only a TypeError is answered by the next form of the call.
SfxTried(sdk) ==
    IF sdk[1] # "TypeError" THEN <<sdk[1]>>
    ELSE IF sdk[2] # "TypeError" THEN <<sdk[1], sdk[2]>>
    ELSE sdk

\* "Clamp to API range for safety": [0.1, 30.0] seconds
SfxClamp(duration) ==
    IF duration = NaN THEN duration
    ELSE IF duration[1] < TicksPerSecond \div 10 THEN <<TicksPerSecond \div 10>>
    ELSE IF duration[1] > 30 * TicksPerSecond THEN Seconds(30)
    ELSE duration

SfxCall(api_key, form, text, duration, looping) ==
    [endpoint |-> "text_to_sound_effects.convert", key |-> api_key, form |-> form,
     text |-> text, duration |-> duration, looping |-> looping]

\* The keyword arguments of the n-th attempt.
SfxAttempt(n, api_key, text, duration, looping) ==
    CASE n = 1 -> SfxCall(api_key, "duration_seconds/loop", text, duration, looping)
      [] n = 2 -> SfxCall(api_key, "duration/looping", text, duration, looping)
      [] OTHER -> SfxCall(api_key, "text", text, <<>>, FALSE)

SfxMetadata(request, norm, file) ==
    [k |-> "dict", request |-> request, response |-> norm.response, api |-> norm.api,
     file |-> file]

\* _run of the sound-effects node.  audio and metadata are the values
\* assigned to the output slots (<<>> when the run raised before that).
SfxRun(in, resolved, reads, imported, sdk, resp, saved) ==
    LET api_key == RunResolveKey(resolved, reads.config, reads.environ)
        tried == SfxTried(sdk)
        use == in.use_specific_duration /\ in.duration_seconds # <<>>
        duration == IF use THEN SfxClamp(in.duration_seconds) ELSE <<>>
        base == [phase |-> "done", in |-> in, key |-> NoKey, calls |-> <<>>,
                 raised |-> NoError, resolved |-> resolved, reads |-> reads,
                 resp |-> RespBytes(<<>>), norm |-> <<>>,
                 saved |-> FALSE, audio |-> <<>>, metadata |-> <<>>, tried |-> <<>>]
        called == [base EXCEPT !.key = api_key, !.tried = tried,
                     !.calls = [n \in 1..Len(tried) |->
                                   SfxAttempt(n, api_key, in.text, duration, in.looping)]]
        norm == SfxNormalize(resp)
        pub == SfxPublish(norm, saved)
        request == [text_len |-> StrLen(in.text),
                    use_specific_duration |-> in.use_specific_duration,
                    duration_seconds |-> IF in.use_specific_duration
                                         THEN duration ELSE <<>>,
                    looping |-> in.looping]
    IN  IF ~Truthy(in.text) \/ Strip(in.text) = <<>> THEN
            [base EXCEPT !.raised = Error("ValueError", "ValidationError",
                                          Lit("text is required", 16))]
        ELSE IF ~KeyTruthy(api_key) THEN [base EXCEPT !.raised = MissingKeyConfig]
        ELSE IF ~imported THEN [base EXCEPT !.key = api_key, !.raised = MissingPackage]
        ELSE IF tried[Len(tried)] # "ok" THEN
            [called EXCEPT !.raised = Error("Exception", "RemoteAPIError",
                                            Lit("convert failed", 14))]
        ELSE [called EXCEPT !.resp = resp, !.norm = <<norm>>,
                            !.saved = (pub.file # <<>> /\ pub.file[1].saved_to_static),
                            !.audio = <<pub.artifact>>,
                            !.metadata = <<SfxMetadata(request, norm, pub.file)>>]

\* The executions: every input against one plain response, and every
\* response against one plain input.
SfxPlainResponse == RespBytes(<<77>>)

SfxPlainSdk == <<"ok", "ok", "ok">>

SfxCase(in, imported, sdk, resp, saved) ==
    [in |-> in, imported |-> imported, sdk |-> sdk, resp |-> resp, saved |-> saved]

SfxCases ==
    {SfxCase(i, TRUE, k, SfxPlainResponse, TRUE) :
        i \in SfxInputs, k \in {k \in SdkOutcomes : SfxTried(k)[Len(SfxTried(k))] = "ok"}}
    \cup {SfxCase(SfxDefaultInput, TRUE, k, SfxPlainResponse, TRUE) : k \in SdkOutcomes}
    \cup {SfxCase(SfxDefaultInput, FALSE, SfxPlainSdk, SfxPlainResponse, TRUE)}
    \cup {SfxCase(SfxDefaultInput, TRUE, SfxPlainSdk, r, v) :
             r \in SfxResponses, v \in BOOLEAN}

SfxPlainCase == SfxCase(SfxDefaultInput, TRUE, SfxPlainSdk, SfxPlainResponse, TRUE)

RunSoundEffects ==
    /\ node = "sound_effects"
    /\ pc = "scheduled"
    /\ \E i \in DOMAIN callbacks :
       \E c \in CallbackCases(SfxCases, SfxPlainCase) :
       \E reads \in RunReads(resolved_api_key, c = SfxPlainCase) :
          LET r == SfxRun(c.in, resolved_api_key, reads, c.imported, c.sdk,
                          c.resp, c.saved) IN
          /\ exec' = WithOwn(r, callbacks[i])
          /\ outputs' = IF r.audio # <<>>
                        THEN [outputs EXCEPT !.audio = r.audio[1], !.metadata = r.metadata[1]]
                        ELSE outputs
          /\ callbacks' = RemoveAt(callbacks, i)
    /\ pc' = IF Len(callbacks) = 1 THEN "idle" ELSE "scheduled"
    /\ UNCHANGED <<node, resolved_api_key, selection, tr>>

-----------------------------------------------------------------------------
(* ElevenLabsTextToSpeech and ElevenLabsVoiceChanger: shared shapes *)

SpeechNodes == {"text_to_speech", "voice_changer"}

VoicePresets == {"None", "Custom...", "Alexandra", "Nobody"}

\* VOICE_PRESET_MAP.get(voice_preset); NoneStr for a name outside the map
VOICE_PRESET_MAP(voice_preset) ==
    CASE voice_preset = "Alexandra" -> Lit("kdmDKE6EkgrWrrykO9Qt", 20)
      [] voice_preset = "Rachel" -> Lit("21m00Tcm4TlvDq8ikWAM", 20)
      [] OTHER -> NoneStr

CustomVoiceIds == {NoneStr, <<Run("sp", 1)>>, <<Run("sp", 1), Run("a", 3), Run("sp", 1)>>}

Stabilities == {"None", "Natural", "Bogus"}

\* match stability_str: the number sent, in tenths
StabilityValue(stability_str) ==
    CASE stability_str = "Creative" -> <<0>>
      [] stability_str = "Natural" -> <<5>>
      [] stability_str = "Robust" -> <<10>>
      [] OTHER -> <<>>

InvalidStability ==
    Error("ValueError", "ValidationError", Lit("received invalid stability value", 32))

\* _get_voice_id of both nodes
_get_voice_id(voice_preset, custom_voice_id) ==
    IF voice_preset = "Custom..." THEN
        IF Truthy(custom_voice_id) /\ Strip(custom_voice_id) # <<>>
        THEN Strip(custom_voice_id) ELSE NoneStr
    ELSE IF voice_preset # "None" THEN VOICE_PRESET_MAP(voice_preset)
    ELSE NoneStr

\* _clear_execution_status() and _set_status_results(...)
StatusCleared == [k |-> "cleared", was_successful |-> FALSE, result_details |-> <<>>]

Status(was_successful, result_details) ==
    [k |-> "set", was_successful |-> was_successful, result_details |-> result_details]

\* _get_api_key of both nodes raises this
MissingKeyAtRun ==
    Error("RuntimeError", "ConfigurationError",
          Lit("This should have been caught during validation.", 47))

\* The exception _submit_request raises for an exchange that did not succeed.
SubmitError(n, http) ==
    IF http.k = "status"
    THEN RemoteError(ParseErrorResponse(n, http.body, http.code))
    ELSE RequestFailed

Ran(e, out) == [exec |-> e, outputs |-> out]

-----------------------------------------------------------------------------
(* Voice selection of the two speech nodes: after_value_set and
   _fetch_voice_preview *)

\* The values the user gives voice_preset and custom_voice_id.
SelectPresets == {"Alexandra", "Rachel", "Custom..."}

SelectCustomIds ==
    {NoneStr, <<>>, <<Run("sp", 1)>>, <<Run("a", 3)>>,
     <<Run("sp", 1), Run("a", 3), Run("sp", 1)>>, <<Run("a", 4)>>}

\* How GET voices/{voice_id} ends: the voice data with or without a
\* preview_url, a status the code names, another error status, an exception
\* of the transport, or _get_api_key raising for a missing key.
PreviewFetches == {"preview", "no-preview", "400", "404", "401", "500", "network", "no-key"}

\* The preview_url the vendor holds for a voice.
PreviewLink(voice_id) == Lit("https://cdn/preview/", 20) \o voice_id

\* The ParameterMessage element: its text and whether it is hidden.
Message(value, hidden) == [value |-> value, hidden |-> hidden]

Selection(voice_preset, custom_voice_id, voice_preview, error_message, custom_hidden,
          preview_hidden) ==
    [voice_preset |-> voice_preset, custom_voice_id |-> custom_voice_id,
     voice_preview |-> voice_preview, error_message |-> error_message,
     custom_hidden |-> custom_hidden, preview_hidden |-> preview_hidden]

\* The selection of a node that has none.
NoSelection == Selection("None", NoneStr, NoneV, Message(<<>>, TRUE), TRUE, FALSE)

\* The parameters as the constructor adds them.
DefaultSelection == Selection("Alexandra", NoneStr, NoneV, Message(<<>>, TRUE), TRUE, FALSE)

\* The text of the error message for a fetch that did not give a preview.
PreviewErrorText(voice_id, fetch) ==
    CASE fetch = "no-preview" -> Lit("Voice data does not contain preview_url", 39)
      [] fetch = "400" -> Lit("Voice '", 7) \o voice_id \o Lit("' is not accessible. ", 21)
      [] fetch = "404" -> Lit("Voice '", 7) \o voice_id \o Lit("' not found in your account. ", 29)
      [] fetch = "401" -> Lit("Unauthorized access. ", 21)
      [] fetch = "500" -> Lit("Failed to fetch voice preview (HTTP 500): ", 42)
      [] OTHER -> Lit("Failed to fetch voice preview: ", 31)

\* _fetch_voice_preview of both nodes; only the text-to-speech node shows and
\* hides the voice_preview parameter.
_fetch_voice_preview(n, sel, fetch) ==
    LET voice_id == _get_voice_id(sel.voice_preset, sel.custom_voice_id)
        hide(h) == IF n = "text_to_speech" THEN h ELSE sel.preview_hidden
    IN  IF ~Truthy(voice_id) THEN
            [sel EXCEPT !.voice_preview = NoneV, !.error_message = Message(<<>>, TRUE),
                        !.preview_hidden = hide(FALSE)]
        ELSE IF fetch = "preview" THEN
            [sel EXCEPT !.voice_preview =
                            AudioUrlArtifact(VendorUrl(PreviewLink(voice_id)), NoName),
                        !.error_message = Message(<<>>, TRUE),
                        !.preview_hidden = hide(FALSE)]
        ELSE [sel EXCEPT !.voice_preview = NoneV,
                         !.error_message = Message(PreviewErrorText(voice_id, fetch), FALSE),
                         !.preview_hidden = hide(TRUE)]

\* value and value.strip()
NonBlank(value) == Truthy(value) /\ Strip(value) # <<>>

\* after_value_set of the text-to-speech node, for the two voice parameters;
\* sel already holds the value that was set.
TtsAfterValueSet(sel, name, value, fetch) ==
    IF name = "voice_preset" THEN
        _fetch_voice_preview("text_to_speech",
                             [sel EXCEPT !.custom_hidden = (value # "Custom...")], fetch)
    ELSE IF sel.voice_preset = "Custom..." /\ NonBlank(value)
         THEN _fetch_voice_preview("text_to_speech", sel, fetch)
         ELSE [sel EXCEPT !.voice_preview = NoneV]

\* after_value_set of the voice changer, for the two voice parameters
VcAfterValueSet(sel, name, value, fetch) ==
    IF name = "voice_preset" THEN
        IF value = "Custom..." THEN [sel EXCEPT !.custom_hidden = FALSE]
        ELSE _fetch_voice_preview("voice_changer", [sel EXCEPT !.custom_hidden = TRUE], fetch)
    ELSE IF sel.voice_preset = "Custom..." THEN
        IF NonBlank(value) THEN _fetch_voice_preview("voice_changer", sel, fetch)
        ELSE [sel EXCEPT !.voice_preview = NoneV]
    ELSE sel

AfterValueSet(n, sel, name, value, fetch) ==
    IF n = "text_to_speech" THEN TtsAfterValueSet(sel, name, value, fetch)
    ELSE VcAfterValueSet(sel, name, value, fetch)

\* The selection after __init__: the voice changer fetches the preview of
\* the default voice, the text-to-speech node does not.
CreatedSelections(n) ==
    IF n = "voice_changer"
    THEN {_fetch_voice_preview(n, DefaultSelection, fetch) : fetch \in PreviewFetches}
    ELSE {DefaultSelection}

\* The user picks a voice preset.
SetVoicePreset ==
    /\ node \in SpeechNodes
    /\ \E value \in SelectPresets, fetch \in PreviewFetches :
          selection' = AfterValueSet(node, [selection EXCEPT !.voice_preset = value],
                                     "voice_preset", value, fetch)
    /\ UNCHANGED <<node, resolved_api_key, pc, outputs, exec, callbacks, tr>>

\* The user enters a custom voice id.
SetCustomVoiceId ==
    /\ node \in SpeechNodes
    /\ \E value \in SelectCustomIds, fetch \in PreviewFetches :
          selection' = AfterValueSet(node, [selection EXCEPT !.custom_voice_id = value],
                                     "custom_voice_id", value, fetch)
    /\ UNCHANGED <<node, resolved_api_key, pc, outputs, exec, callbacks, tr>>

-----------------------------------------------------------------------------
(* ElevenLabsTextToSpeech *)

TtsTexts == {NoneStr, <<Run("sp", 2)>>, <<Run("a", 8)>>}

TtsInput(t, p, c, s) == [text |-> t, voice_preset |-> p, custom_voice_id |-> c, stability |-> s]

TtsDefaultInput == TtsInput(<<Run("a", 8)>>, "Alexandra", NoneStr, "None")

TtsInputs ==
    {TtsInput(t, "Alexandra", NoneStr, "None") : t \in TtsTexts}
    \cup {TtsInput(TtsDefaultInput.text, p, c, "None") :
            p \in VoicePresets, c \in CustomVoiceIds}
    \cup {TtsInput(TtsDefaultInput.text, "Alexandra", NoneStr, s) : s \in Stabilities}

\* validate_before_node_run: the errors returned (<<>> is None)
TtsValidate(in, secret) ==
    (IF ~KeyTruthy(secret) THEN <<"missing ELEVEN_LABS_API_KEY">> ELSE <<>>)
    \o (IF ~Truthy(in.text) \/ Strip(in.text) = <<>>
        THEN <<"Text input is required.">> ELSE <<>>)

\* _get_parameters: the request body, or the ValueError it raises
TtsParameters(in) ==
    IF in.stability # "None" /\ StabilityValue(in.stability) = <<>>
    THEN [raised |-> InvalidStability, params |-> <<>>]
    ELSE [raised |-> NoError,
          params |-> <<[text |-> IF Truthy(in.text) THEN in.text ELSE <<>>,
                        model_id |-> "eleven_multilingual_v2",
                        stability |-> StabilityValue(in.stability)]>>]

TtsRequest(api_key, voice_id, params) ==
    [endpoint |-> "POST text-to-speech/{voice_id}", key |-> api_key,
     voice_id |-> voice_id, payload |-> params]

\* _set_safe_defaults followed by _set_status_results(False, ...)
TtsFailed(out, msg) ==
    [out EXCEPT !.audio = NoneV, !.alignment = NoneV, !.status = Status(FALSE, msg)]

\* _process_async.  raised is the exception that leaves the coroutine,
\* failure the one handed to _handle_failure_exception.
TtsProcessAsync(in, secret, http, saved, out) ==
    LET cleared == [out EXCEPT !.status = StatusCleared]
        got == TtsParameters(in)
        voice_id == _get_voice_id(in.voice_preset, in.custom_voice_id)
        base == [phase |-> "done", in |-> in, key |-> NoKey, calls |-> <<>>,
                 raised |-> NoError, failure |-> NoError, resp_bytes |-> <<>>,
                 http |-> HttpTransportError, save_called |-> FALSE, saved |-> FALSE]
        sent == [base EXCEPT !.key = secret, !.http = http,
                             !.calls = <<TtsRequest(secret, voice_id, got.params[1])>>]
        filename == FileName("eleven_tts", "mp3")
    IN  IF got.raised # NoError THEN
            Ran([base EXCEPT !.failure = got.raised], TtsFailed(cleared, got.raised.msg))
        ELSE IF ~KeyTruthy(secret) THEN
            Ran([base EXCEPT !.raised = MissingKeyAtRun], cleared)
        ELSE IF ~Truthy(voice_id) THEN
            LET e == Error("ValueError", "ValidationError", Lit("Voice ID is required.", 21))
            IN  Ran([base EXCEPT !.key = secret, !.failure = e], TtsFailed(cleared, e.msg))
        ELSE IF http.k # "ok" THEN
            LET e == SubmitError("text_to_speech", http)
            IN  Ran([sent EXCEPT !.failure = e], TtsFailed(cleared, e.msg))
        ELSE IF http.content = <<>> THEN
            Ran(sent, TtsFailed(cleared, Lit("No audio data received from API", 31)))
        ELSE IF saved THEN
            Ran([sent EXCEPT !.resp_bytes = http.content, !.save_called = TRUE,
                             !.saved = TRUE],
                [cleared EXCEPT !.audio = AudioUrlArtifact(StaticUrl(filename), filename),
                                !.alignment = NoneV,
                                !.status = Status(TRUE, Lit("Speech generated successfully", 29))])
        ELSE
            LET e == Error("Exception", "StorageError", Lit("save_static_file failed", 23))
            IN  Ran([sent EXCEPT !.resp_bytes = http.content, !.save_called = TRUE,
                                 !.failure = e],
                    TtsFailed(cleared, e.msg))

\* The host runs validate_before_node_run and starts the node only when it
\* returned no error.
ValidateTextToSpeech ==
    /\ node = "text_to_speech"
    /\ pc = "idle"
    /\ \E in \in TtsInputs, secret \in SecretValues :
          LET errors == TtsValidate(in, secret) IN
          /\ exec' = [phase |-> IF errors = <<>> THEN "validated" ELSE "rejected",
                      in |-> in, errors |-> errors, calls |-> <<>>]
          /\ pc' = IF errors = <<>> THEN "validated" ELSE "idle"
    /\ UNCHANGED <<node, resolved_api_key, outputs, callbacks, selection, tr>>

TtsCase(secret, http, saved) == [secret |-> secret, http |-> http, saved |-> saved]

TtsCases ==
    {TtsCase(k, HttpOk(<<77>>), TRUE) : k \in SecretValues}
    \cup {TtsCase("kA", h, v) : h \in HttpOutcomes, v \in BOOLEAN}

ProcessTextToSpeech ==
    /\ node = "text_to_speech"
    /\ pc = "validated"
    /\ \E c \in TtsCases :
          LET r == TtsProcessAsync(exec.in, c.secret, c.http, c.saved, outputs) IN
          /\ exec' = r.exec
          /\ outputs' = r.outputs
    /\ pc' = "idle"
    /\ UNCHANGED <<node, resolved_api_key, callbacks, selection, tr>>

-----------------------------------------------------------------------------
(* ElevenLabsVoiceChanger *)

\* The audio_or_video input: nothing, an audio or a video artifact whose
\* value is a URL, or one whose value is not a string.
MediaInputs == {"None", "audio", "audio-no-url", "video", "video-no-url"}

\* How _extract_audio_from_video ends.
ExtractOutcomes ==
    {"ImportError", "no-ffmpeg", "CalledProcessError", "TimeoutExpired", "no-file",
     "empty-file", "save-failed", "ok"}

VcInput(a, p, c, s) ==
    [audio_or_video |-> a, voice_preset |-> p, custom_voice_id |-> c, stability |-> s]

VcDefaultInput == VcInput("audio", "Alexandra", NoneStr, "None")

VcInputs ==
    {VcInput(a, "Alexandra", NoneStr, "None") : a \in MediaInputs}
    \cup {VcInput("audio", p, c, "None") : p \in VoicePresets, c \in CustomVoiceIds}
    \cup {VcInput("audio", "Alexandra", NoneStr, s) : s \in Stabilities}

\* validate_before_node_run
VcValidate(in, secret) ==
    (IF ~KeyTruthy(secret) THEN <<"missing ELEVEN_LABS_API_KEY">> ELSE <<>>)
    \o (IF in.audio_or_video = "None"
        THEN <<"requires an audio or video input.">> ELSE <<>>)

\* raised: the exception that leaves the extraction; primary: the one raised
\* before the finally clause ran; temp_left: the temporary file is still on
\* disk afterwards.
Extracted(raised, primary, temp_created, temp_deleted, temp_left) ==
    [raised |-> raised, primary |-> primary, temp_created |-> temp_created,
     temp_deleted |-> temp_deleted, temp_left |-> temp_left]

ExtractError(msg) == Error("ValueError", "ExternalToolError", msg)

\* _extract_audio_from_video: the exception that leaves it (NoError when it
\* returns the saved URL) and what became of the temporary file.  unlinked
\* tells whether temp_audio_path.unlink() in the finally clause succeeded.
_extract_audio_from_video(outcome, unlinked) ==
    LET primary ==
            CASE outcome = "CalledProcessError" ->
                    ExtractError(Lit("FFmpeg failed to extract audio", 30))
              [] outcome = "ok" -> NoError
              [] outcome \in {"no-file", "empty-file"} ->
                    ExtractError(Lit("Failed to extract audio from video: empty", 41))
              [] OTHER -> ExtractError(Lit("Failed to extract audio from video", 34))
        exists == outcome # "no-file"
        missing == ExtractError(Lit("requires FFmpeg", 15))
        unfound == ExtractError(Lit("FFmpeg not found", 16))
    IN  IF outcome = "ImportError" THEN Extracted(missing, missing, FALSE, FALSE, FALSE)
        ELSE IF outcome = "no-ffmpeg" THEN Extracted(unfound, unfound, FALSE, FALSE, FALSE)
        ELSE IF ~exists THEN Extracted(primary, primary, TRUE, FALSE, FALSE)
        ELSE IF unlinked THEN Extracted(primary, primary, TRUE, TRUE, FALSE)
        ELSE Extracted(Error("OSError", "UnexpectedError", Lit("unlink failed", 13)),
                       primary, TRUE, FALSE, TRUE)

\* _get_parameters: voice_id is the custom id as entered, not trimmed
VcParameters(in) ==
    LET voice_id == IF in.voice_preset = "Custom..." THEN in.custom_voice_id
                    ELSE IF in.voice_preset # "None" THEN VOICE_PRESET_MAP(in.voice_preset)
                    ELSE NoneStr
    IN  IF ~Truthy(voice_id) THEN
            [raised |-> Error("ValueError", "ValidationError",
                              Lit("requires a valid voice selection", 32)),
             params |-> <<>>]
        ELSE IF in.stability # "None" /\ StabilityValue(in.stability) = <<>> THEN
            [raised |-> InvalidStability, params |-> <<>>]
        ELSE [raised |-> NoError,
              params |-> <<[voice_id |-> voice_id,
                            model_id |-> "eleven_multilingual_sts_v2",
                            output_format |-> Fmt_mp3_44100_128,
                            stability |-> StabilityValue(in.stability)]>>]

\* voice_id is popped from the parameters and goes into the URL
VcRequest(api_key, params, audio_bytes) ==
    [endpoint |-> "POST speech-to-speech/{voice_id}", key |-> api_key,
     voice_id |-> params.voice_id,
     payload |-> [model_id |-> params.model_id, output_format |-> params.output_format,
                  stability |-> params.stability],
     audio |-> audio_bytes]

\* _set_safe_defaults followed by _set_status_results(False, ...)
VcFailed(out, msg) == [out EXCEPT !.audio_url = NoneV, !.status = Status(FALSE, msg)]

NotExtracted == Extracted(NoError, NoError, FALSE, FALSE, FALSE)

\* _process_async of the voice changer.  download is the byte buffer the
\* input URL gave, or NoneBytes when the download failed.
VcProcessAsync(in, extract, download, secret, http, saved, out) ==
    LET cleared == [out EXCEPT !.status = StatusCleared]
        got == VcParameters(in)
        base == [phase |-> "done", in |-> in, key |-> NoKey, calls |-> <<>>,
                 raised |-> NoError, failure |-> NoError, resp_bytes |-> <<>>,
                 http |-> HttpTransportError, save_called |-> FALSE, saved |-> FALSE,
                 extract |-> NotExtracted, downloaded |-> FALSE]
        fail(e, x) == Ran([x EXCEPT !.failure = e], VcFailed(cleared, e.msg))
        prepared == IF in.audio_or_video = "video" THEN [base EXCEPT !.extract = extract]
                    ELSE base
        fetched == [prepared EXCEPT !.downloaded = TRUE]
        sent == [fetched EXCEPT !.key = secret, !.http = http,
                                !.calls = <<VcRequest(secret, got.params[1], download.data)>>]
        filename == FileName("eleven_voice_changer", "mp3")
    IN  IF in.audio_or_video \in {"None", "audio-no-url"} THEN
            Ran(base, VcFailed(cleared, Lit("Failed to prepare audio input", 29)))
        ELSE IF in.audio_or_video = "video-no-url" THEN
            fail(Error("ValueError", "ValidationError",
                       Lit("could not extract URL from video input", 38)), base)
        ELSE IF prepared.extract.raised # NoError THEN fail(prepared.extract.raised, prepared)
        ELSE IF got.raised # NoError THEN fail(got.raised, prepared)
        ELSE IF ~download.some THEN
            fail(Error("ValueError", "UnexpectedError",
                       Lit("Failed to download audio from", 29)), prepared)
        ELSE IF ~KeyTruthy(secret) THEN fail(MissingKeyAtRun, fetched)
        ELSE IF http.k # "ok" THEN fail(SubmitError("voice_changer", http), sent)
        ELSE IF http.content = <<>> THEN
            Ran(sent, VcFailed(cleared, Lit("No audio data received from API", 31)))
        ELSE IF saved THEN
            Ran([sent EXCEPT !.resp_bytes = http.content, !.save_called = TRUE,
                             !.saved = TRUE],
                [cleared EXCEPT
                    !.audio_url = AudioUrlArtifact(StaticUrl(filename), filename),
                    !.status = Status(TRUE, Lit("Voice transformation completed successfully", 43))])
        ELSE
            fail(Error("Exception", "StorageError", Lit("save_static_file failed", 23)),
                 [sent EXCEPT !.resp_bytes = http.content, !.save_called = TRUE])

ValidateVoiceChanger ==
    /\ node = "voice_changer"
    /\ pc = "idle"
    /\ \E in \in VcInputs, secret \in SecretValues :
          LET errors == VcValidate(in, secret) IN
          /\ exec' = [phase |-> IF errors = <<>> THEN "validated" ELSE "rejected",
                      in |-> in, errors |-> errors, calls |-> <<>>]
          /\ pc' = IF errors = <<>> THEN "validated" ELSE "idle"
    /\ UNCHANGED <<node, resolved_api_key, outputs, callbacks, selection, tr>>

VcCase(extract, download, secret, http, saved) ==
    [extract |-> extract, download |-> download, secret |-> secret, http |-> http,
     saved |-> saved]

VcPlainExtract == _extract_audio_from_video("ok", TRUE)

VcCases ==
    {VcCase(_extract_audio_from_video(o, u), SomeBytes(<<77>>), "kA", HttpOk(<<77>>), TRUE) :
        o \in ExtractOutcomes, u \in BOOLEAN}
    \cup {VcCase(VcPlainExtract, d, k, HttpOk(<<77>>), TRUE) :
            d \in {NoneBytes, SomeBytes(<<>>), SomeBytes(<<255>>)}, k \in SecretValues}
    \cup {VcCase(VcPlainExtract, SomeBytes(<<77>>), "kA", h, v) :
            h \in HttpOutcomes, v \in BOOLEAN}

ProcessVoiceChanger ==
    /\ node = "voice_changer"
    /\ pc = "validated"
    /\ \E c \in VcCases :
          LET r == VcProcessAsync(exec.in, c.extract, c.download, c.secret, c.http,
                                  c.saved, outputs) IN
          /\ exec' = r.exec
          /\ outputs' = r.outputs
    /\ pc' = "idle"
    /\ UNCHANGED <<node, resolved_api_key, callbacks, selection, tr>>

-----------------------------------------------------------------------------
(* ElevenLabsDesignVoice *)

MaxPreviews == 2

\* unicodedata.normalize("NFKD", s).encode("ascii", "ignore").decode("ascii")
RECURSIVE _to_ascii(_)
_to_ascii(s) ==
    IF IsNone(s) \/ s = <<>> THEN s
    ELSE IF s[1].c = "u0" THEN _to_ascii(Tail(s))
    ELSE IF s[1].c = "lig" THEN Cat(Lit("a", 2 * s[1].n), _to_ascii(Tail(s)))
    ELSE IF s[1].c = "acc" THEN Cat(Lit("a", s[1].n), _to_ascii(Tail(s)))
    ELSE Cat(<<s[1]>>, _to_ascii(Tail(s)))

\* while len(fallback) < 20: fallback += " voice"
RECURSIVE PadVoice(_)
PadVoice(fallback) ==
    IF StrLen(fallback) < 20 THEN PadVoice(Cat(fallback, Lit("a", 6))) ELSE fallback

\* The coercion without the expansion of a short description.
CoerceDescriptionNoPad(description) ==
    Take(description, 1000)

\* "Enforce API min/max length with smart coercion"
CoerceDescription(description) ==
    IF StrLen(description) < 20
    THEN Take(PadVoice(Cat(description, Lit("a", 35))), 1000)
    ELSE IF StrLen(description) > 1000 THEN Take(description, 1000)
    ELSE description

\* safe_description = _to_ascii(description) or description
SafeDescription(description) ==
    IF _to_ascii(description) # <<>> THEN _to_ascii(description) ELSE description

\* "Only include preview_text if valid; otherwise ignore"
CoercePreviewText(preview_text) ==
    IF IsNone(preview_text) THEN NoneStr
    ELSE IF StrLen(preview_text) < 100 THEN NoneStr
    ELSE IF StrLen(preview_text) > 1000 THEN Take(preview_text, 1000)
    ELSE preview_text

DesignPrompts ==
    {NoneStr, <<>>, <<Run("a", 1)>>, <<Run("a", 5)>>, <<Run("u0", 5)>>, <<Run("a", 19)>>,
     <<Run("a", 10), Run("u0", 10)>>,
     <<Run("u0", 20)>>, <<Run("acc", 30)>>, <<Run("lig", 1000)>>, <<Run("a", 1001)>>}

DesignPreviewTexts ==
    {NoneStr, <<>>, <<Run("a", 50)>>, <<Run("a", 100)>>, <<Run("u0", 100)>>,
     <<Run("a", 1001)>>}

DesignInput(p, t, a) == [prompt |-> p, preview_text |-> t, auto_generate_text |-> a]

DesignDefaultInput == DesignInput(<<Run("acc", 30)>>, NoneStr, TRUE)

DesignInputs ==
    {DesignInput(p, NoneStr, TRUE) : p \in DesignPrompts}
    \cup {DesignInput(DesignDefaultInput.prompt, t, a) :
            t \in DesignPreviewTexts, a \in BOOLEAN}

\* One preview of the response; saved tells whether save_static_file of its
\* decoded audio returns.
Preview(audio, gen_id, media_type, saved) ==
    [audio_base_64 |-> audio, generated_voice_id |-> gen_id, media_type |-> media_type,
     saved |-> saved]

PreviewKinds ==
    {Preview(FStr(B64Encode(<<77>>)), Lit("voiceA", 6), "audio/mpeg", TRUE),
     Preview(FStr(B64Encode(<<255>>)), Lit("voiceB", 6), "audio/wav", FALSE),
     Preview(FAbsent, Lit("voiceC", 6), "audio/ogg", TRUE),
     Preview(FStr(<<19>>), NoneStr, "None", TRUE)}

PreviewLists == UNION {[1..n -> PreviewKinds] : n \in 0..MaxPreviews}

\* How the attempts of client.text_to_voice.design end, in order; the
\* attempt after a UnicodeEncodeError is the direct HTTP call.
DesignOutcomes ==
    {<<"ok", "ok">>, <<"error", "ok">>, <<"TypeError", "ok">>, <<"TypeError", "error">>,
     <<"TypeError", "TypeError">>, <<"UnicodeEncodeError", "ok">>,
     <<"UnicodeEncodeError", "error">>}

\* The attempts made, with their outcomes: a TypeError is answered by the
\* call without output_format, a UnicodeEncodeError by the direct POST.
DesignTried(sdk) ==
    IF sdk[1] \in {"TypeError", "UnicodeEncodeError"} THEN sdk ELSE <<sdk[1]>>

DesignCall(api_key, via, output_format, payload) ==
    [endpoint |-> "text_to_voice.design", key |-> api_key, via |-> via,
     output_format |-> output_format, payload |-> payload]

DesignAttempt(n, first, api_key, payload) ==
    IF n = 1 THEN DesignCall(api_key, "sdk", "mp3_44100_192", payload)
    ELSE IF first = "TypeError" THEN DesignCall(api_key, "sdk", "None", payload)
    ELSE DesignCall(api_key, "http", "mp3_44100_192", payload)

PreviewExt(mime) ==
    CASE mime = "audio/wav" -> "wav"
      [] mime = "audio/ogg" -> "ogg"
      [] OTHER -> "mp3"

\* The artifact built for one preview, <<>> when it carries no audio.
PreviewArtifact(p) ==
    LET mime == IF p.media_type = "None" THEN "audio/mpeg" ELSE p.media_type
        stem == IF Truthy(p.generated_voice_id) THEN "elevenlabs_{gen_id}"
                ELSE "elevenlabs_preview_{i}_{uuid}"
    IN  IF ~FTruthy(p.audio_base_64) THEN <<>>
        ELSE IF p.audio_base_64.t = "str" /\ B64Decode(p.audio_base_64.s).ok /\ p.saved
             THEN <<AudioUrlArtifact(StaticUrl(FileName(stem, PreviewExt(mime))), NoName)>>
             ELSE <<AudioUrlArtifact(DataUrl(mime, p.audio_base_64.s), NoName)>>

\* preview_artifacts after the loop over the first n previews
RECURSIVE PreviewArtifacts(_, _)
PreviewArtifacts(previews, n) ==
    IF n = 0 THEN <<>>
    ELSE PreviewArtifacts(previews, n - 1) \o PreviewArtifact(previews[n])

PreviewEntry(p) ==
    [generated_voice_id |-> p.generated_voice_id,
     media_type |-> IF p.media_type = "None" THEN "audio/mpeg" ELSE p.media_type,
     audio_url |-> IF PreviewArtifact(p) = <<>> THEN NoneV ELSE PreviewArtifact(p)[1].value]

DesignSlots == 1..Max(3, MaxPreviews)

DesignFailed(out) == [out EXCEPT !.previews = <<>>, !.preview_audios = <<>>]

\* _run of the voice-design node
DesignRun(in, resolved, reads, imported, sdk, previews, out) ==
    LET description == CoerceDescription(in.prompt)
        preview_text == CoercePreviewText(in.preview_text)
        api_key == RunResolveKey(resolved, reads.config, reads.environ)
        safe_description == SafeDescription(description)
        safe_preview_text == _to_ascii(preview_text)
        tried == DesignTried(sdk)
        payload == [voice_description |-> safe_description,
                    model_id |-> "eleven_multilingual_ttv_v2",
                    text |-> safe_preview_text,
                    auto_generate_text |-> IsNone(safe_preview_text) /\ in.auto_generate_text]
        base == [phase |-> "done", in |-> in, key |-> NoKey, calls |-> <<>>,
                 raised |-> NoError, resolved |-> resolved, reads |-> reads,
                 previews |-> <<>>, published |-> <<>>, tried |-> <<>>,
                 description |-> IF Truthy(in.prompt) THEN description ELSE NoneStr]
        called == [base EXCEPT !.key = api_key, !.tried = tried,
                     !.calls = [n \in 1..Len(tried) |->
                                   DesignAttempt(n, tried[1], api_key, payload)]]
        artifacts == PreviewArtifacts(previews, Len(previews))
    IN  IF ~Truthy(in.prompt) THEN
            Ran([base EXCEPT !.raised = Error("ValueError", "ValidationError",
                                              Lit("voice_description is required.", 30))],
                DesignFailed(out))
        ELSE IF ~KeyTruthy(api_key) THEN
            Ran([base EXCEPT !.raised = MissingKeyConfig], DesignFailed(out))
        ELSE IF ~imported THEN
            Ran([base EXCEPT !.key = api_key, !.raised = MissingPackage], DesignFailed(out))
        ELSE IF IsNone(safe_preview_text) /\ ~in.auto_generate_text THEN
            Ran([base EXCEPT !.key = api_key,
                             !.raised = Error("ValueError", "ValidationError",
                                              Lit("Provide 'preview_text' or enable 'auto_generate_text'.", 54))],
                out)
        ELSE IF tried[Len(tried)] # "ok" THEN
            Ran([called EXCEPT !.raised = Error("Exception", "RemoteAPIError",
                                                Lit("design failed", 13))], out)
        ELSE
            Ran([called EXCEPT
                    !.previews = previews,
                    !.published = [i \in 1..Min(Len(previews), Len(artifacts)) |-> artifacts[i]]],
                [out EXCEPT
                    !.voice_id = [i \in DesignSlots |->
                                     IF i <= Len(previews) THEN previews[i].generated_voice_id
                                     ELSE out.voice_id[i]],
                    !.preview_audio = [i \in 1..3 |->
                                          IF i <= Len(artifacts) THEN artifacts[i] ELSE NoneV],
                    !.preview_audios = artifacts,
                    !.preview_metadata =
                        [k |-> "dict", count |-> Len(previews),
                         previews |-> [i \in 1..Len(previews) |-> PreviewEntry(previews[i])]]])

DesignCase(in, imported, sdk, previews) ==
    [in |-> in, imported |-> imported, sdk |-> sdk, previews |-> previews]

DesignPlainPreviews ==
    <<Preview(FStr(B64Encode(<<77>>)), Lit("voiceA", 6), "audio/mpeg", TRUE)>>

DesignPlainSdk == <<"ok", "ok">>

DesignPlainCase == DesignCase(DesignDefaultInput, TRUE, DesignPlainSdk, DesignPlainPreviews)

DesignCases ==
    {DesignCase(i, TRUE, DesignPlainSdk, DesignPlainPreviews) : i \in DesignInputs}
    \cup {DesignCase(DesignDefaultInput, m, k, DesignPlainPreviews) :
            m \in BOOLEAN, k \in DesignOutcomes}
    \cup {DesignCase(DesignDefaultInput, TRUE, DesignPlainSdk, ps) : ps \in PreviewLists}

RunVoiceDesign ==
    /\ node = "voice_design"
    /\ pc = "scheduled"
    /\ \E i \in DOMAIN callbacks :
       \E c \in CallbackCases(DesignCases, DesignPlainCase) :
       \E reads \in RunReads(resolved_api_key, c = DesignPlainCase) :
          LET r == DesignRun(c.in, resolved_api_key, reads, c.imported, c.sdk,
                             c.previews, outputs) IN
          /\ exec' = WithOwn(r.exec, callbacks[i])
          /\ outputs' = r.outputs
          /\ callbacks' = RemoveAt(callbacks, i)
    /\ pc' = IF Len(callbacks) = 1 THEN "idle" ELSE "scheduled"
    /\ UNCHANGED <<node, resolved_api_key, selection, tr>>

-----------------------------------------------------------------------------
(* ElevenLabsCloneVoice *)

MaxSamples == 2

\* One element of the audio input: an AudioArtifact holding bytes, an
\* AudioUrlArtifact whose download succeeds or fails or whose value is
\* empty, or a value that is no audio artifact.
SampleKinds == {"bytes", "url-ok", "url-fails", "url-empty", "other"}

SampleLists == UNION {[1..n -> SampleKinds] : n \in 0..MaxSamples}

\* The audio input: None or a list.
CloneAudioInputs == {<<"None">>} \cup {<<"list", l>> : l \in SampleLists}

\* _normalize_audio_input followed by _prepare_audio_file: the samples that
\* become upload parts
RECURSIVE SelectSamples(_, _)
SelectSamples(l, keep) ==
    IF l = <<>> THEN <<>>
    ELSE (IF l[1] \in keep THEN <<l[1]>> ELSE <<>>) \o SelectSamples(Tail(l), keep)

\* The JSON document of a 2xx answer of POST /v1/voices/add
CloneAnswers ==
    {[voice_id |-> v, requires_verification |-> r] :
        v \in {NoneStr, Lit("cloned", 6)}, r \in BOOLEAN}

CloneHttpOutcomes ==
    {HttpOk(a) : a \in CloneAnswers}
    \cup {HttpStatusError(400, b) : b \in RunErrorBodies}
    \cup {HttpTransportError}

CloneRequest(api_key, files) ==
    [endpoint |-> "POST /v1/voices/add", key |-> api_key, files |-> files]

CloneFailed(msg) == Error("RuntimeError", "UnexpectedError", msg)

\* _run of the clone-voice node
CloneRun(audio, secret, http, out) ==
    LET samples == IF audio[1] = "None" THEN <<>> ELSE audio[2]
        audio_list == SelectSamples(samples, SampleKinds \ {"other"})
        files == SelectSamples(audio_list, {"bytes", "url-ok"})
        base == [phase |-> "done", in |-> audio, key |-> NoKey, calls |-> <<>>,
                 raised |-> NoError, downloads |-> 0]
        keyed == [base EXCEPT !.key = secret,
                              !.downloads = Len(SelectSamples(audio_list, {"url-ok", "url-fails"}))]
        sent == [keyed EXCEPT !.calls = <<CloneRequest(secret, files)>>]
    IN  IF samples = <<>> THEN
            Ran([base EXCEPT !.raised = Error("ValueError", "ValidationError",
                                              Lit("Audio input is required for voice cloning.", 42))],
                out)
        ELSE IF ~KeyTruthy(secret) THEN
            Ran([base EXCEPT !.raised = Error("RuntimeError", "ConfigurationError",
                                              Lit("is missing ELEVEN_LABS_API_KEY", 30))], out)
        ELSE IF audio_list = <<>> THEN
            Ran([base EXCEPT !.key = secret,
                             !.raised = Error("ValueError", "ValidationError",
                                              Lit("No valid audio files found in input.", 36))],
                out)
        ELSE IF files = <<>> THEN
            Ran([keyed EXCEPT !.raised = CloneFailed(Lit("Failed to create voice clone: prepare", 37))],
                out)
        ELSE IF http.k = "status" THEN
            Ran([sent EXCEPT !.raised =
                    RemoteError(ParseErrorResponse("clone_voice", http.body, http.code))], out)
        ELSE IF http.k = "transport" THEN
            Ran([sent EXCEPT !.raised = CloneFailed(Lit("Failed to create voice clone: ", 30))], out)
        ELSE IF ~Truthy(http.content.voice_id) THEN
            Ran([sent EXCEPT !.raised = CloneFailed(Lit("Failed to create voice clone: voice_id", 38))],
                out)
        ELSE Ran(sent, [out EXCEPT !.voice_id = http.content.voice_id,
                                   !.requires_verification = http.content.requires_verification])

ClonePlainAudio == <<"list", <<"bytes">>>>

CloneCases ==
    {[audio |-> a, secret |-> "kA", http |-> HttpOk([voice_id |-> Lit("cloned", 6),
                                                      requires_verification |-> FALSE])] :
        a \in CloneAudioInputs}
    \cup {[audio |-> a, secret |-> k, http |-> HttpTransportError] :
            a \in {<<"None">>, ClonePlainAudio}, k \in SecretValues}
    \cup {[audio |-> ClonePlainAudio, secret |-> "kA", http |-> h] : h \in CloneHttpOutcomes}

RunCloneVoice ==
    /\ node = "clone_voice"
    /\ pc = "scheduled"
    /\ \E c \in CloneCases :
          LET r == CloneRun(c.audio, c.secret, c.http, outputs) IN
          /\ exec' = r.exec
          /\ outputs' = r.outputs
    /\ pc' = "idle"
    /\ UNCHANGED <<node, resolved_api_key, callbacks, selection, tr>>

-----------------------------------------------------------------------------
(* ElevenLabsSaveVoice *)

SaveInput(g, n, d) == [generated_voice_id |-> g, voice_name |-> n, voice_description |-> d]

SaveDefaultInput == SaveInput(Lit("voiceA", 6), <<Run("a", 4)>>, <<Run("a", 20)>>)

SaveInputs ==
    {SaveInput(g, SaveDefaultInput.voice_name, SaveDefaultInput.voice_description) :
        g \in {NoneStr, <<>>, Lit("voiceA", 6)}}
    \cup {SaveInput(SaveDefaultInput.generated_voice_id, n, SaveDefaultInput.voice_description) :
            n \in {NoneStr, <<Run("a", 4)>>}}
    \cup {SaveInput(SaveDefaultInput.generated_voice_id, SaveDefaultInput.voice_name, d) :
            d \in {NoneStr, <<Run("a", 19)>>, <<Run("a", 20)>>, <<Run("a", 1000)>>,
                   <<Run("a", 1001)>>}}

\* The voice that text_to_voice.create returns: its id, and where a preview
\* URL is found ("top", "nested" under verified_languages[0], or "none").
SavedVoices ==
    {[voice_id |-> v, preview_at |-> w] :
        v \in {NoneStr, Lit("saved", 5)}, w \in {"top", "nested", "none"}}

SavedPreviewLink == <<Run("https://cdn/preview", 19)>>

\* _run of the save-voice node.  created: create() returned; fetched: the
\* download of the preview and save_static_file both succeeded.
SaveRun(in, resolved, reads, imported, created, voice, fetched, out) ==
    LET api_key == RunResolveKey(resolved, reads.config, reads.environ)
        base == [phase |-> "done", in |-> in, key |-> NoKey, calls |-> <<>>,
                 raised |-> NoError, resolved |-> resolved, reads |-> reads]
        called == [base EXCEPT !.key = api_key,
                     !.calls = <<[endpoint |-> "text_to_voice.create", key |-> api_key,
                                  payload |-> in]>>]
        invalid(msg) == Ran([base EXCEPT !.raised = Error("ValueError", "ValidationError", msg)],
                            out)
        preview_artifact ==
            IF voice.preview_at = "none" THEN NoneV
            ELSE IF fetched
                 THEN AudioUrlArtifact(StaticUrl(FileName("elevenlabs_{voice_id}_preview", "mp3")),
                                       NoName)
                 ELSE AudioUrlArtifact(VendorUrl(SavedPreviewLink), NoName)
    IN  IF ~Truthy(in.generated_voice_id) THEN
            invalid(Lit("generated_voice_id is required.", 31))
        ELSE IF ~Truthy(in.voice_name) THEN invalid(Lit("voice_name is required.", 23))
        ELSE IF ~Truthy(in.voice_description) \/ StrLen(in.voice_description) < 20
                \/ StrLen(in.voice_description) > 1000 THEN
            invalid(Lit("voice_description must be between 20 and 1000 characters.", 57))
        ELSE IF ~KeyTruthy(api_key) THEN Ran([base EXCEPT !.raised = MissingKeyConfig], out)
        ELSE IF ~imported THEN
            Ran([base EXCEPT !.key = api_key, !.raised = MissingPackage], out)
        ELSE IF ~created THEN
            Ran([called EXCEPT !.raised = Error("Exception", "RemoteAPIError",
                                                Lit("create failed", 13))], out)
        ELSE Ran(called, [out EXCEPT !.voice = [k |-> "dict", voice |-> voice],
                                     !.voice_id = voice.voice_id,
                                     !.preview_audio = preview_artifact])

SavePlainVoice == [voice_id |-> Lit("saved", 5), preview_at |-> "top"]

SaveCase(in, imported, created, voice, fetched) ==
    [in |-> in, imported |-> imported, created |-> created, voice |-> voice,
     fetched |-> fetched]

SavePlainCase == SaveCase(SaveDefaultInput, TRUE, TRUE, SavePlainVoice, TRUE)

SaveCases ==
    {SaveCase(i, TRUE, TRUE, SavePlainVoice, TRUE) : i \in SaveInputs}
    \cup {SaveCase(SaveDefaultInput, m, c, SavePlainVoice, TRUE) : m, c \in BOOLEAN}
    \cup {SaveCase(SaveDefaultInput, TRUE, TRUE, v, f) : v \in SavedVoices, f \in BOOLEAN}

RunSaveVoice ==
    /\ node = "save_voice"
    /\ pc = "scheduled"
    /\ \E i \in DOMAIN callbacks :
       \E c \in CallbackCases(SaveCases, SavePlainCase) :
       \E reads \in RunReads(resolved_api_key, c = SavePlainCase) :
          LET r == SaveRun(c.in, resolved_api_key, reads, c.imported, c.created, c.voice,
                           c.fetched, outputs) IN
          /\ exec' = WithOwn(r.exec, callbacks[i])
          /\ outputs' = r.outputs
          /\ callbacks' = RemoveAt(callbacks, i)
    /\ pc' = IF Len(callbacks) = 1 THEN "idle" ELSE "scheduled"
    /\ UNCHANGED <<node, resolved_api_key, selection, tr>>

-----------------------------------------------------------------------------
(* ElevenLabsListVoices *)

PAGE_SIZE == 10

FETCH_LIMIT == 100

\* The numbers of voices the search returns (one answer ignores page_size).
VoiceCounts == {0, 1, 10, 11, 25, FETCH_LIMIT, FETCH_LIMIT + 5}

\* The page input; <<>> is None.
ListPages == {<<>>, <<-1>>, <<0>>, <<1>>, <<2>>, <<3>>, <<11>>}

\* The i-th voice of the fetched list; voice `bare` has no preview_url.
ListedVoice(i, bare) ==
    [voice_id |-> <<i>>, name |-> <<Run("a", i)>>,
     preview_url |-> IF i = bare THEN NoneStr ELSE <<Run("https://cdn/voice", i)>>]

\* a // b
FloorDiv(a, b) == a \div b

\* math.ceil(a / b) for a >= 0, b > 0
CeilDiv(a, b) == (a + b - 1) \div b

ListTotalPages(total) == Max(1, CeilDiv(Min(total, FETCH_LIMIT), PAGE_SIZE))

EmptySlot == [voice_id |-> <<>>, name |-> <<>>, preview |-> NoneV, shown |-> FALSE]

\* "Populate current page and reveal populated slots"
ListSlot(v) ==
    [voice_id |-> v.voice_id, name |-> v.name,
     preview |-> IF Truthy(v.preview_url)
                 THEN AudioUrlArtifact(VendorUrl(v.preview_url), NoName) ELSE NoneV,
     shown |-> TRUE]

\* The slots left as the run found them
KeptSlots(slots) == slots

\* "Clear then hide all slots before repopulating"
ClearedSlots(slots) == [i \in DOMAIN slots |-> EmptySlot]

\* The number of slots on display
ShownSlots(slots) == Cardinality({i \in DOMAIN slots : slots[i].shown})

\* _run of the list-voices node; shown_before records how many slots were
\* on display when the run began.
ListRun(page_in, resolved, reads, imported, searched, total, bare, out) ==
    LET requested == IF page_in = <<>> \/ page_in = <<0>> THEN 1 ELSE page_in[1]
        api_key == ListResolveKey(resolved, reads.config, reads.environ)
        total_pages == ListTotalPages(total)
        page == Max(1, Min(requested, total_pages))
        start == (page - 1) * PAGE_SIZE
        base == [phase |-> "done", in |-> page_in, key |-> NoKey, calls |-> <<>>,
                 raised |-> NoError, resolved |-> resolved, reads |-> reads,
                 total |-> 0, bare |-> 0, page |-> 0,
                 shown_before |-> ShownSlots(out.slots)]
        cleared == ClearedSlots(out.slots)
        called == [base EXCEPT !.key = api_key,
                     !.calls = <<[endpoint |-> "voices.search", key |-> api_key,
                                  page_size |-> FETCH_LIMIT]>>]
    IN  IF ~KeyTruthy(api_key) THEN Ran([base EXCEPT !.raised = MissingKeyConfig], out)
        ELSE IF ~imported THEN
            Ran([base EXCEPT !.key = api_key, !.raised = MissingPackage], out)
        ELSE IF ~searched THEN
            Ran([called EXCEPT !.raised = Error("Exception", "RemoteAPIError",
                                                Lit("search failed", 13))], out)
        ELSE Ran([called EXCEPT !.total = total, !.bare = bare, !.page = page],
                 [out EXCEPT
                    !.slots = [i \in 1..PAGE_SIZE |->
                                  IF start + i <= total THEN ListSlot(ListedVoice(start + i, bare))
                                  ELSE cleared[i]],
                    !.total_pages = <<total_pages>>])

ListCase(page, imported, searched, total, bare) ==
    [page |-> page, imported |-> imported, searched |-> searched, total |-> total,
     bare |-> bare]

ListPlainCase == ListCase(<<1>>, TRUE, TRUE, 1, 0)

ListCases ==
    {ListCase(p, TRUE, TRUE, n, b) : p \in ListPages, n \in VoiceCounts, b \in {0, 1}}
    \cup {ListCase(<<1>>, m, s, 1, 0) : m, s \in BOOLEAN}

RunListVoices ==
    /\ node = "list_voices"
    /\ pc = "scheduled"
    /\ \E i \in DOMAIN callbacks :
       \E c \in CallbackCases(ListCases, ListPlainCase) :
       \E reads \in RunReads(resolved_api_key, c = ListPlainCase) :
          LET r == ListRun(c.page, resolved_api_key, reads, c.imported, c.searched,
                           c.total, c.bare, outputs) IN
          /\ exec' = WithOwn(r.exec, callbacks[i])
          /\ outputs' = r.outputs
          /\ callbacks' = RemoveAt(callbacks, i)
    /\ pc' = IF Len(callbacks) = 1 THEN "idle" ELSE "scheduled"
    /\ UNCHANGED <<node, resolved_api_key, selection, tr>>

-----------------------------------------------------------------------------
(* process(): the nodes that defer their work yield the _run callback *)

DeferredNodes == {"music", "clone_voice"}

ProcessDeferred ==
    /\ node \in DeferredNodes
    /\ pc = "idle"
    /\ pc' = "scheduled"
    /\ exec' = [phase |-> "scheduled"]
    /\ UNCHANGED <<node, resolved_api_key, outputs, callbacks, selection, tr>>

-----------------------------------------------------------------------------
(* The node instance *)

InitNodes == Nodes

InitOutputs(n) ==
    CASE n = "music" -> [audio |-> NoneV]
      [] n = "sound_effects" -> [audio |-> NoneV, metadata |-> NoneV]
      [] n = "voice_design" ->
            [previews |-> <<>>, preview_audios |-> <<>>, preview_metadata |-> NoneV,
             voice_id |-> [i \in DesignSlots |-> NoneStr],
             preview_audio |-> [i \in 1..3 |-> NoneV]]
      [] n = "clone_voice" -> [voice_id |-> NoneStr, requires_verification |-> FALSE]
      [] n = "save_voice" -> [voice |-> NoneV, voice_id |-> NoneStr, preview_audio |-> NoneV]
      [] n = "list_voices" ->
            [slots |-> [i \in 1..PAGE_SIZE |-> EmptySlot], total_pages |-> <<>>]
      [] n = "voice_changer" -> [audio_url |-> NoneV, status |-> StatusCleared]
      [] n = "text_to_speech" ->
            [audio |-> NoneV, alignment |-> NoneV, status |-> StatusCleared]
      [] OTHER -> [audio |-> NoneV]

Init ==
    /\ node \in InitNodes
    /\ resolved_api_key = "unset"
    /\ pc = "idle"
    /\ outputs = InitOutputs(node)
    /\ exec = ExecIdle
    /\ callbacks = <<>>
    /\ selection = (IF node \in SpeechNodes THEN DefaultSelection ELSE NoSelection)
    /\ tr = TrIdle

Next ==
    \/ ProcessDeferred
    \/ ProcessCaching
    \/ RunMusic
    \/ RunSoundEffects
    \/ ValidateTextToSpeech
    \/ ProcessTextToSpeech
    \/ ValidateVoiceChanger
    \/ ProcessVoiceChanger
    \/ RunVoiceDesign
    \/ RunCloneVoice
    \/ RunSaveVoice
    \/ RunListVoices

Spec == Init /\ [][Next]_vars

\* The voice selection of a speech node, edited from its creation on.
InitSelect ==
    /\ node \in SpeechNodes
    /\ resolved_api_key = "unset"
    /\ pc = "idle"
    /\ outputs = InitOutputs(node)
    /\ exec = ExecIdle
    /\ callbacks = <<>>
    /\ selection \in CreatedSelections(node)
    /\ tr = TrIdle

NextSelect ==
    \/ SetVoicePreset
    \/ SetCustomVoiceId

SpecSelect == InitSelect /\ [][NextSelect]_vars

-----------------------------------------------------------------------------
(* Properties *)

\* An execution has run to its end (returned or raised).
Finished == pc = "idle" /\ exec.phase = "done"

\* The byte buffer the vendor response yielded in the execution.
ReceivedBytes ==
    IF node = "sound_effects"
    THEN (IF exec.norm = <<>> THEN <<>> ELSE exec.norm[1].audio_bytes.data)
    ELSE exec.resp_bytes

\* The audio output slot of the four nodes that deliver one audio.
AudioSlot == IF node = "voice_changer" THEN outputs.audio_url ELSE outputs.audio

\* C1: in the music and sound-effects nodes, after a run whose vendor
\* response yielded a non-empty byte buffer, the audio slot holds an
\* artifact; its URL is the one save_static_file returned when the save
\* succeeded, and a data: URL whose payload decodes to exactly those bytes
\* when the save raised.
C1_ArtifactForBytes ==
    (node \in {"music", "sound_effects"} /\ Finished /\ ReceivedBytes # <<>>) =>
        /\ outputs.audio.k = "AudioUrlArtifact"
        /\ IF exec.saved
           THEN outputs.audio.value.scheme = "static"
           ELSE /\ outputs.audio.value.scheme = "data"
                /\ B64Decode(outputs.audio.value.payload) =
                       [ok |-> TRUE, bytes |-> ReceivedBytes]

C1_Witness ==
    /\ node = "sound_effects" /\ Finished
    /\ ReceivedBytes = <<77, 255>>
    /\ ~exec.saved
    /\ outputs.audio.k = "AudioUrlArtifact"

\* C2 (as claimed): in music, sound effects, text-to-speech and voice
\* changer, when the vendor returned non-empty bytes and save_static_file
\* raised, the audio slot is non-null at the end of the execution.
C2_BytesNotDiscarded ==
    (node \in {"music", "sound_effects", "text_to_speech", "voice_changer"}
     /\ Finished /\ ReceivedBytes # <<>> /\ ~exec.saved) =>
        AudioSlot # NoneV

\* C3 (as claimed): when the save raised, the artifact's URL is
\* data:audio/mpeg;base64,<base64 of the bytes>, whatever the output format.
C3_AlwaysMpeg ==
    (node \in {"music", "sound_effects"} /\ Finished /\ ReceivedBytes # <<>>
     /\ ~exec.saved) =>
        /\ outputs.audio.k = "AudioUrlArtifact"
        /\ outputs.audio.value.scheme = "data"
        /\ outputs.audio.value.mime = "audio/mpeg"
        /\ B64Decode(outputs.audio.value.payload) = [ok |-> TRUE, bytes |-> ReceivedBytes]

\* The media type of the fallback URL: the music node names audio/wav for a
\* "pcm..." output format.
FallbackMime ==
    IF node = "music" /\ StartsWith(exec.output_format, Lit("pcm", 3))
    THEN "audio/wav" ELSE "audio/mpeg"

\* C3 (amended): when the save raised, the artifact's URL is
\* data:<mime>;base64,<payload>, where the payload decodes to exactly the
\* received bytes and <mime> is audio/mpeg, except in the music node with a
\* "pcm..." output format, where it is audio/wav.
C3_DataUrlOfBytes ==
    (node \in {"music", "sound_effects"} /\ Finished /\ ReceivedBytes # <<>>
     /\ ~exec.saved) =>
        /\ outputs.audio.k = "AudioUrlArtifact"
        /\ outputs.audio.value.scheme = "data"
        /\ outputs.audio.value.mime = FallbackMime
        /\ B64Decode(outputs.audio.value.payload) = [ok |-> TRUE, bytes |-> ReceivedBytes]

C3_Witness ==
    /\ node = "music" /\ Finished
    /\ ReceivedBytes = <<77, 255, 18>>
    /\ ~exec.saved
    /\ exec.output_format = Fmt_pcm_44100
    /\ outputs.audio.value.mime = "audio/wav"

\* C5 (as claimed): an error translator never raises and returns a
\* non-empty string.
C5_TranslatorTotal ==
    tr.called => (tr.result.raised = "None" /\ tr.result.text # <<>>)

\* C6 (as claimed): with a specific length requested, the music_length_ms
\* sent lies in [10000, 300000].
C6_LengthClamped ==
    (node = "music" /\ Finished /\ exec.calls # <<>> /\ exec.in.use_specific_length
     /\ exec.in.music_duration_seconds # <<>>) =>
        /\ exec.calls[1].payload.music_length_ms # <<>>
        /\ exec.calls[1].payload.music_length_ms[1] >= MIN_MUSIC_LENGTH_SEC * 1000
        /\ exec.calls[1].payload.music_length_ms[1] <= MAX_MUSIC_LENGTH_SEC * 1000

\* The values of every output slot that can hold an audio artifact.
SlotValues ==
    CASE node \in {"music", "sound_effects", "text_to_speech"} -> {outputs.audio}
      [] node = "voice_changer" -> {outputs.audio_url}
      [] node = "voice_design" -> {outputs.preview_audio[i] : i \in 1..3}
      [] node = "save_voice" -> {outputs.preview_audio}
      [] node = "list_voices" -> {outputs.slots[i].preview : i \in 1..PAGE_SIZE}
      [] OTHER -> {}

\* The URL came from save_static_file, or is a data: URL whose payload is
\* the base64 text of some non-empty byte buffer.
SavedOrEncoded(a) ==
    \/ a.value.scheme = "static"
    \/ /\ a.value.scheme = "data"
       /\ a.value.mime # "vendor"
       /\ B64Decode(a.value.payload).ok
       /\ B64Decode(a.value.payload).bytes # <<>>

RequiredInputMissing ==
    CASE node = "music" -> ~Truthy(exec.in.prompt)
      [] node = "voice_design" -> ~Truthy(exec.in.prompt)
      [] node = "sound_effects" -> ~Truthy(exec.in.text)
      [] node = "text_to_speech" -> ~Truthy(exec.in.text)
      [] node = "voice_changer" -> exec.in.audio_or_video = "None"
      [] node = "clone_voice" -> exec.in \in {<<"None">>, <<"list", <<>>>>}
      [] OTHER -> FALSE

\* C7 (as claimed): an execution whose required input is absent or empty
\* ends in a validation error and sends no vendor request.
C7_RequiredInput ==
    /\ (pc = "idle" /\ exec.phase = "rejected" /\ RequiredInputMissing) =>
            (exec.errors # <<>> /\ exec.calls = <<>>)
    /\ (Finished /\ RequiredInputMissing) =>
            \/ exec.calls = <<>> /\ exec.raised.kind = "ValidationError"
            \/ /\ exec.calls = <<>> /\ node = "voice_changer"
               /\ outputs.status.k = "set" /\ ~outputs.status.was_successful

\* The rule of the claim: the configured key when it is non-empty, else the
\* environment variable.
ConfiguredOrEnviron(config, environ) ==
    IF config \notin {"None", "", "raise"} THEN config
    ELSE IF environ \notin {"None", ""} THEN environ
    ELSE NoKey

C9_FailuresReported ==
    (node \in SpeechNodes /\ Finished) =>
        /\ exec.raised = NoError
        /\ outputs.status.k = "set"
        /\ (exec.failure # NoError) =>
                (~outputs.status.was_successful
                 /\ outputs.status.result_details = exec.failure.msg)

\* C10 (as claimed): the voice_description of every design request has
\* between 20 and 1000 characters.
C10_DescriptionLength ==
    (node = "voice_design" /\ Finished /\ exec.calls # <<>>) =>
        /\ StrLen(exec.calls[1].payload.voice_description) >= 20
        /\ StrLen(exec.calls[1].payload.voice_description) <= 1000

\* C11: in the voice-design node, a non-empty description of fewer than 20
\* characters is expanded and cut to 1000 characters into a description of
\* at least 20 (and at most 1000) characters that begins with the original.
C11_PaddingReachesMinimum ==
    (node = "voice_design" /\ Finished /\ Truthy(exec.in.prompt)
     /\ StrLen(exec.in.prompt) < 20) =>
        /\ StrLen(exec.description) >= 20
        /\ StrLen(exec.description) <= 1000
        /\ Take(exec.description, StrLen(exec.in.prompt)) = exec.in.prompt

C11_Witness ==
    /\ node = "voice_design" /\ Finished
    /\ exec.in.prompt = <<Run("u0", 5)>>
    /\ exec.description = <<Run("u0", 5), Run("a", 35)>>

\* The base64 text a dictionary response carries (audio_base_64 or
\* audio_base64) does not decode.
UndecodableDict ==
    /\ node = "sound_effects" /\ Finished /\ exec.norm # <<>>
    /\ exec.resp.k = "dict"
    /\ FOr(exec.resp.d.audio_base_64, exec.resp.d.audio_base64).t = "str"
    /\ ~B64Decode(FOr(exec.resp.d.audio_base_64, exec.resp.d.audio_base64).s).ok

\* C12 (as claimed): in the sound-effects node, when the base64 audio field
\* of a dictionary response fails to decode, the run returns without raising
\* and the audio slot is null.
C12_UndecodableIsNoAudio ==
    UndecodableDict => (exec.raised = NoError /\ outputs.audio = NoneV)

\* The fields of a translated JSON object body (JAbsent when missing).
TrDetail == JGet(tr.body.json.fields, "detail", JAbsent)

TrError == JGet(tr.body.json.fields, "error", JAbsent)

TrStatus == IF TrDetail.t = "obj" THEN JGet(TrDetail.fields, "status", JAbsent) ELSE JAbsent

TrMessage == IF TrDetail.t = "obj" THEN JGet(TrDetail.fields, "message", JAbsent) ELSE JAbsent

\* A translator was applied to a JSON object whose status, message and
\* error fields, where present, are strings.
TranslatedObject ==
    /\ tr.called /\ tr.body.valid /\ tr.body.json.t = "obj"
    /\ TrStatus.t \in {"absent", "str"}
    /\ TrMessage.t \in {"absent", "str"}
    /\ TrError.t \in {"absent", "str"}

\* The string the claim's rule selects: <<>> when no field is recognised.
ExpectedMessage ==
    IF TrDetail.t = "obj" /\ JTruthy(TrMessage)
    THEN <<IF JTruthy(TrStatus) THEN StatusMessage(TrStatus, TrMessage)
           ELSE ErrorMessage(TrMessage)>>
    ELSE IF TrDetail.t = "str" THEN <<ErrorMessage(TrDetail)>>
    ELSE IF TrError.t = "str" THEN <<ErrorMessage(TrError)>>
    ELSE <<>>

\* C13 (as claimed): every translator takes the message of a JSON object
\* body from detail.message (detail an object with a non-empty message),
\* else from detail (a plain string), else from error, and returns a string
\* beginning "<status>: <message>" when detail.status is present and
\* "Error: <message>" otherwise.
C13_MessageExtraction ==
    (TranslatedObject /\ ExpectedMessage # <<>>) =>
        /\ tr.result.raised = "None"
        /\ StartsWith(tr.result.text, ExpectedMessage[1])

\* The response text is not JSON, or it is JSON without a 'detail' or
\* 'error' field.
NothingRecognised ==
    \/ ~tr.body.valid
    \/ tr.body.json.t # "obj"
    \/ DOMAIN tr.body.json.fields \cap {"detail", "error"} = {}

\* C14 (as claimed): when the response text is not valid JSON or has no
\* recognised field, the translator returns "API Error (<status code>): "
\* followed by the first 200 characters of the raw response text.
C14_RawTextFallback ==
    (tr.called /\ NothingRecognised) =>
        /\ tr.result.raised = "None"
        /\ StartsWith(tr.result.text, ApiError(tr.status_code, Take(tr.body.text, 200)))

\* The sound-effects run assigned an artifact to the audio slot.
SfxOutputsArtifact ==
    /\ node = "sound_effects" /\ Finished
    /\ exec.audio # <<>> /\ exec.audio[1] # NoneV

\* C15 (as claimed): a sound-effects run that outputs an artifact outputs
\* one URL, the durable URL or a data URL, and metadata.file.saved_to_static
\* is true exactly when the URL is the one save_static_file returned.
C15_DurableOrDataUrl ==
    SfxOutputsArtifact =>
        /\ outputs.audio.value.scheme \in {"static", "data"}
        /\ outputs.metadata.file # <<>>
        /\ outputs.metadata.file[1].saved_to_static = (outputs.audio.value.scheme = "static")

\* C15 (amended): a sound-effects run that outputs an artifact outputs one
\* URL, also recorded as metadata.file.url: the URL save_static_file
\* returned, a data URL, or (only when the response yielded no bytes) a URL
\* taken from the response dictionary; metadata.file.saved_to_static is true
\* exactly when it is the URL save_static_file returned.
C15_OneUrlRecorded ==
    SfxOutputsArtifact =>
        /\ outputs.audio = exec.audio[1]
        /\ outputs.audio.value.scheme \in {"static", "data", "vendor"}
        /\ (outputs.audio.value.scheme = "vendor") => ReceivedBytes = <<>>
        /\ outputs.metadata.file # <<>>
        /\ outputs.metadata.file[1].url = outputs.audio.value
        /\ outputs.metadata.file[1].saved_to_static = (outputs.audio.value.scheme = "static")

C15_Witness ==
    /\ SfxOutputsArtifact
    /\ ReceivedBytes = <<255>>
    /\ outputs.audio.value.scheme = "data"
    /\ outputs.metadata.file[1].saved_to_static = FALSE

\* The nodes whose vendor call has fallback forms.
FallbackNodes == {"sound_effects", "voice_design"}

\* C16 (as claimed): no execution of any node invokes the vendor call more
\* than once; a call that raised is followed by no further call.
C16_NoRetry ==
    Finished => Len(exec.calls) <= 1

\* C16 (amended): the music, text-to-speech, voice-changer, clone-voice,
\* save-voice and list-voices nodes invoke the vendor call at most once per
\* execution.  The sound-effects node invokes it at most three times and the
\* voice-design node at most twice, a further call following only a call
\* that raised TypeError (voice design: or UnicodeEncodeError); the
\* execution raises when its last call failed.
C16_OnlySignatureFallback ==
    Finished =>
        /\ (node \notin FallbackNodes) => Len(exec.calls) <= 1
        /\ (node \in FallbackNodes) =>
            /\ Len(exec.calls) = Len(exec.tried)
            /\ Len(exec.calls) <= (IF node = "sound_effects" THEN 3 ELSE 2)
            /\ \A i \in 1..(Len(exec.tried) - 1) :
                   exec.tried[i] \in (IF node = "sound_effects" THEN {"TypeError"}
                                      ELSE {"TypeError", "UnicodeEncodeError"})
            /\ (exec.tried # <<>> /\ exec.tried[Len(exec.tried)] # "ok") =>
                   exec.raised.kind = "RemoteAPIError"

C16_Witness ==
    /\ node = "sound_effects" /\ Finished
    /\ exec.tried = <<"TypeError", "error">>
    /\ Len(exec.calls) = 2
    /\ exec.raised # NoError

\* C17 (as claimed): in the voice changer's extraction of audio from video,
\* the temporary output file is gone on every exit path, and the exception
\* that leaves the extraction (none on success) is the primary one, never
\* one raised by the deletion.
C17_TempFileCleanup ==
    (node = "voice_changer" /\ Finished /\ exec.extract.temp_created) =>
        /\ ~exec.extract.temp_left
        /\ exec.extract.raised = exec.extract.primary
        /\ exec.failure = exec.extract.primary \/ exec.extract.primary = NoError

\* An execution of a caching node has run its callback to the end.
CallbackRan == node \in CachingNodes /\ exec.phase = "done"

\* C18: in the sound-effects, voice-design, save-voice and list-voices
\* nodes, every vendor call of an execution carries the key that the same
\* execution's process() resolved, however the executions of the one node
\* instance interleave and however the configured key changes in between;
\* a key cached by another execution is never used.
C18_KeyOfOwnExecution ==
    CallbackRan =>
        /\ KeyTruthy(exec.resolved) => exec.resolved = exec.own
        /\ KeyTruthy(exec.own) =>
                \A i \in 1..Len(exec.calls) : exec.calls[i].key = exec.own

\* isinstance(part, (bytes, bytearray))
IsByteChunk(part) == part.bytes

\* The buffers of the listed chunks, one after the other.
RECURSIVE Concatenation(_)
Concatenation(parts) ==
    IF parts = <<>> THEN <<>>
    ELSE Concatenation(SubSeq(parts, 1, Len(parts) - 1)) \o parts[Len(parts)].data

\* The sound-effects execution normalised a streamed response.
StreamNormalised ==
    node = "sound_effects" /\ Finished /\ exec.norm # <<>> /\ exec.resp.k = "iter"

\* C19: for a streamed response the sound-effects normaliser returns the
\* concatenation, in arrival order, of exactly the byte chunks, skipping the
\* chunks of any other type; it returns None when the stream holds no byte
\* chunk or when iterating it raises.
C19_StreamJoin ==
    StreamNormalised =>
        LET parts == SelectSeq(exec.resp.chunks, IsByteChunk) IN
        exec.norm[1].audio_bytes =
            IF exec.resp.raises \/ parts = <<>> THEN NoneBytes
            ELSE SomeBytes(Concatenation(parts))

\* A stream of two different byte chunks was joined in arrival order.
C19_Witness ==
    /\ StreamNormalised
    /\ exec.resp.chunks = <<ByteChunk(<<255>>), ByteChunk(<<77>>)>>
    /\ exec.norm[1].audio_bytes = SomeBytes(<<255, 77>>)

\* The buffers whose base64 text the dictionary responses carry.
EncodedBuffers == {<<77>>, <<255>>, <<77, 255>>, TenBytes}

\* The dictionary d holds the base64 text of b under one of the two
\* spellings: under audio_base_64, or under audio_base64 with nothing (or
\* the empty string) under audio_base_64.
HoldsBase64(d, b) ==
    \/ d.audio_base_64 = FStr(B64Encode(b))
    \/ /\ d.audio_base64 = FStr(B64Encode(b))
       /\ d.audio_base_64 \in {FAbsent, FStr(<<>>)}

\* The sound-effects execution normalised a dictionary response.
DictNormalised ==
    node = "sound_effects" /\ Finished /\ exec.norm # <<>> /\ exec.resp.k = "dict"

TermsSpellings == {"music-terms", "Music-Terms"}

\* The music translator was handed a detail object with status
\* 'limited_access' and a message that names the music terms.
TermsRefused ==
    /\ tr.called /\ tr.node = "music"
    /\ tr.body.valid /\ tr.body.json.t = "obj"
    /\ TrStatus = LimitedAccess
    /\ TrMessage.t = "str"
    /\ \E i \in 1..Len(TrMessage.str) :
          TrMessage.str[i].c \in TermsSpellings /\ TrMessage.str[i].n = 11

\* C21: the music translator answers a detail whose status is
\* 'limited_access' and whose message contains 'music-terms' in any case
\* with '<status>: <message>' followed by a hint that names
\* https://elevenlabs.io/music-terms.
C21_MusicTermsHint ==
    TermsRefused =>
        LET expected == Lit("limited_access", 14) \o Lit(": ", 2) \o TrMessage.str
            text == tr.result.text
        IN  /\ tr.result.raised = "None"
            /\ Len(text) > Len(expected)
            /\ SubSeq(text, 1, Len(expected)) = expected
            /\ \E i \in (Len(expected) + 1)..Len(text) :
                  text[i] = Run("https://elevenlabs.io/music-terms", 33)

\* The message spelled 'Music-Terms ...' was translated with the hint.
C21_Witness ==
    /\ TermsRefused
    /\ TrMessage.str[1].c = "Music-Terms"
    /\ tr.result.text[Len(tr.result.text) - 1] = Run("https://elevenlabs.io/music-terms", 33)

\* A run of the list-voices node that fetched the list and filled the slots.
ListSucceeded == node = "list_voices" /\ Finished /\ exec.raised = NoError /\ exec.calls # <<>>

\* The page asked for: the page input, 1 when it is not set.
RequestedPage == IF exec.in = <<>> THEN 1 ELSE exec.in[1]

\* The least number of pages of ten that hold m voices.
PagesFor(m) == CHOOSE k \in 0..m : k * 10 >= m /\ (k - 1) * 10 < m

ExpectedTotalPages ==
    LET m == IF exec.total < 100 THEN exec.total ELSE 100
    IN  IF PagesFor(m) < 1 THEN 1 ELSE PagesFor(m)

\* C22: for a fetched list of n voices and any requested page p, below 1
\* and beyond the last page included, total_pages is
\* max(1, ceil(min(n, 100) / 10)), the displayed page is p clamped into
\* [1, total_pages], and slot i (1..10) holds the voice at index
\* (page - 1) * 10 + i - 1 of the fetched list whenever that index exists.
C22_Pagination ==
    ListSucceeded =>
        /\ outputs.total_pages = <<ExpectedTotalPages>>
        /\ exec.page = (IF RequestedPage < 1 THEN 1
                        ELSE IF RequestedPage > ExpectedTotalPages THEN ExpectedTotalPages
                        ELSE RequestedPage)
        /\ \A i \in 1..10 :
              LET nth == (exec.page - 1) * 10 + i IN
              nth <= exec.total =>
                  /\ outputs.slots[i].voice_id = ListedVoice(nth, exec.bare).voice_id
                  /\ outputs.slots[i].name = ListedVoice(nth, exec.bare).name

\* Page 11 of 25 voices was asked for: page 3 of 3 is displayed and its
\* fifth slot holds the 25th voice.
C22_Witness ==
    /\ ListSucceeded
    /\ exec.in = <<11>> /\ exec.total = 25
    /\ exec.page = 3 /\ outputs.total_pages = <<3>>
    /\ outputs.slots[5].voice_id = <<25>>

\* The voice id the selection stands for: the preset's mapped id, or the
\* trimmed custom id when the preset is 'Custom...' (NoneStr: no voice).
SelectedVoiceId ==
    IF selection.voice_preset = "Custom..."
    THEN (IF IsNone(selection.custom_voice_id) \/ Strip(selection.custom_voice_id) = <<>>
          THEN NoneStr ELSE Strip(selection.custom_voice_id))
    ELSE VOICE_PRESET_MAP(selection.voice_preset)

\* C23: in the text-to-speech and voice-changer nodes, after any sequence
\* of changes to voice_preset and custom_voice_id, a voice_preview that is
\* not null is the preview fetched for the currently selected voice id; the
\* preview of a voice selected before never stays displayed.
C23_PreviewOfSelectedVoice ==
    (node \in SpeechNodes /\ selection.voice_preview # NoneV) =>
        /\ ~IsNone(SelectedVoiceId)
        /\ selection.voice_preview =
               AudioUrlArtifact(VendorUrl(PreviewLink(SelectedVoiceId)), NoName)

\* C28: in the text-to-speech and voice-changer nodes, after any sequence
\* of changes to voice_preset and custom_voice_id, whenever no voice is
\* selected (preset 'Custom...' with an empty or blank custom id) the error
\* message element is hidden and empty; an error raised for a voice id
\* entered before does not stay displayed.
C28_NoErrorWithoutVoice ==
    (node \in SpeechNodes /\ selection.voice_preset = "Custom..." /\ IsNone(SelectedVoiceId)) =>
        selection.error_message = Message(<<>>, TRUE)

\* A duration between 0.1 and 30 seconds.
InApiRange(duration) ==
    /\ Len(duration) = 1
    /\ 10 * duration[1] >= TicksPerSecond
    /\ duration[1] <= 30 * TicksPerSecond

\* C24: the sound-effects request carries a duration only when
\* use_specific_duration is true and a duration value is provided, and any
\* duration it carries lies within [0.1, 30] seconds; when
\* use_specific_duration is false no attempt of the call sends a duration.
C24_DurationSent ==
    (node = "sound_effects" /\ Finished) =>
        \A i \in 1..Len(exec.calls) :
            /\ exec.calls[i].duration # <<>> =>
                  /\ exec.in.use_specific_duration
                  /\ exec.in.duration_seconds # <<>>
                  /\ InApiRange(exec.calls[i].duration)
            /\ ~exec.in.use_specific_duration => exec.calls[i].duration = <<>>

\* A run of the voice-design node that received a response and published it.
DesignCompleted ==
    node = "voice_design" /\ Finished /\ exec.raised = NoError /\ exec.calls # <<>>

\* C25: after a run of the voice-design node, for each N in 1..3 the
\* outputs voice_id_N and preview_audio_N refer to the same preview of the
\* response: preview_audio_N is the artifact built from the audio of the
\* preview whose generated_voice_id is in voice_id_N, also when a preview of
\* the response carries no audio.
C25_SlotsPaired ==
    DesignCompleted =>
        \A N \in 1..3 :
            N <= Len(exec.previews) =>
                /\ outputs.voice_id[N] = exec.previews[N].generated_voice_id
                /\ outputs.preview_audio[N] =
                       (IF PreviewArtifact(exec.previews[N]) = <<>> THEN NoneV
                        ELSE PreviewArtifact(exec.previews[N])[1])

\* C30: after every completed run of the voice-design node, over any
\* sequence of runs of one node instance, voice_id_N (N in 1..3) is
\* non-null only if the current response contains an N-th preview; a voice
\* id written by an earlier run does not remain when the current response
\* has fewer previews.
C30_NoStaleVoiceId ==
    DesignCompleted =>
        \A N \in 1..3 :
            ~IsNone(outputs.voice_id[N]) => N <= Len(exec.previews)

StatusReportsSuccess == outputs.status.k = "set" /\ outputs.status.was_successful

\* C26: after every execution of the text-to-speech and voice-changer
\* nodes, over any sequence of executions of one node instance, the audio
\* output slot is non-null exactly when the status reports success; the
\* audio of an earlier execution never remains after a later failed one.
C26_AudioIffSuccess ==
    (node \in SpeechNodes /\ Finished) =>
        ((AudioSlot # NoneV) <=> StatusReportsSuccess)

\* C27: the voice changer submits its speech-to-speech request with the
\* voice id that _get_voice_id computes for the preview: with the preset
\* 'Custom...' the id is the trimmed custom_voice_id, and an empty or
\* whitespace-only custom id fails with 'requires a valid voice selection'
\* without any request being made.
C27_SubmittedVoiceId ==
    (node = "voice_changer" /\ Finished) =>
        LET voice_id == _get_voice_id(exec.in.voice_preset, exec.in.custom_voice_id)
        IN  /\ \A i \in DOMAIN exec.calls : exec.calls[i].voice_id = voice_id
            /\ (exec.in.voice_preset = "Custom..." /\ ~Truthy(voice_id)
                /\ exec.in.audio_or_video = "audio") =>
                    /\ exec.calls = <<>>
                    /\ outputs.status.result_details =
                           Lit("requires a valid voice selection", 32)

\* The position in the fetched list of the voice slot i of the current page
\* stands for.
NthOnPage(i) == (exec.page - 1) * 10 + i

\* C29: after every successful run of the list-voices node, over any
\* sequence of runs of one node instance, slot i (1..10) is shown and
\* populated exactly when the current page has an i-th voice; every other
\* slot has a null voice id, an empty name, a null preview, and is hidden.
C29_SlotsOfCurrentPage ==
    ListSucceeded =>
        \A i \in 1..10 :
            IF NthOnPage(i) <= exec.total
            THEN /\ outputs.slots[i].shown
                 /\ outputs.slots[i].voice_id # <<>>
            ELSE /\ ~outputs.slots[i].shown
                 /\ outputs.slots[i].voice_id = <<>>
                 /\ outputs.slots[i].name = <<>>
                 /\ outputs.slots[i].preview = NoneV

\* A run that began with all ten slots on display found one voice: the
\* first slot shows it and the other nine are cleared and hidden.
C29_Witness ==
    /\ ListSucceeded
    /\ exec.shown_before = 10
    /\ exec.total = 1
    /\ outputs.slots[1].shown /\ outputs.slots[1].voice_id = <<1>>
    /\ \A i \in 2..10 : outputs.slots[i] = EmptySlot

====
